---- MODULE Spec2Model ----
(***************************************************************************)
(* Model of the code-metrics engine of the repository                      *)
(* (services/metricsCalculator.js, kept here as src/unnamed/part_006) and  *)
(* of the callers that feed it.                                            *)
(*                                                                         *)
(* Conventions                                                             *)
(*  - A JavaScript string is a sequence of one-character strings.          *)
(*  - A JavaScript number that the code can turn into NaN, or a property   *)
(*    that may be absent, is a record [k, v]: Num(v), NaN or Undefined.    *)
(*    Numbers the code rounds to 2 decimals are kept in hundredths.        *)
(*  - Arithmetic is exact (decimal fixed point), not IEEE-754 binary.      *)
(***************************************************************************)
EXTENDS Integers, Sequences, FiniteSets, TLC

VARIABLES
    code,            \* source text handed to the calculator
    ast,             \* tree handed to calculateAllMetrics (or null)
    vulnerabilities, \* list of vulnerability objects
    codeSmells,      \* list of code-smell objects
    metricsArg,      \* metrics object handed to calculateTechnicalDebt
    miArgs,          \* arguments of calculateMaintainabilityIndex
    scenario,        \* how the text was built: block length n, separators m
    pc,              \* "ready" before the call, "done" after it
    ret,             \* what the call produced
    walk,            \* the traversals in progress, one per invocation
    closure,         \* the accumulators the invocations declare
    calls,           \* the calls made so far, with what they returned
    analysis,        \* the analysis documents: step reached, status, saved status
    events           \* the events emitted so far, per analysis

vars == <<code, ast, vulnerabilities, codeSmells, metricsArg, miArgs, scenario, pc, ret, walk, closure, calls, analysis, events>>

(***************************************************************************)
(* JavaScript values                                                       *)
(***************************************************************************)
Num(v) == [k |-> "num", v |-> v]
NaN == [k |-> "nan", v |-> 0]
Undefined == [k |-> "undefined", v |-> 0]

IsNum(x) == x.k = "num"

\* x > n for a JS value x and a number n: false for NaN and for undefined
JsGreater(x, n) == IsNum(x) /\ x.v > n

\* Math.max(0, x) and Math.min(hi, x): NaN when an argument is NaN
MathMax0(x) == IF IsNum(x) THEN Num(IF x.v > 0 THEN x.v ELSE 0) ELSE NaN
MathMin(hi, x) == IF IsNum(x) THEN Num(IF x.v < hi THEN x.v ELSE hi) ELSE NaN

\* Math.round(n / d) for n >= 0, d > 0: halves round up
RoundDiv(n, d) == (2 * n + d) \div (2 * d)

\* x || 1 for a number x
OrOne(x) == IF x = 0 THEN 1 ELSE x

\* obj.key, undefined when the object has no such property
Get(obj, key) == IF key \in DOMAIN obj THEN obj[key] ELSE Undefined

(***************************************************************************)
(* Strings                                                                 *)
(***************************************************************************)
\* the set of elements of a sequence
Range(s) == {s[n] : n \in 1..Len(s)}

NL == "\n"
WhiteSpace == {" ", "\t", "\r", NL}

RECURSIVE SplitFrom(_, _, _)
\* s.split("\n") from position p on, cur being the piece under construction
SplitFrom(s, p, cur) ==
    IF p > Len(s) THEN <<cur>>
    ELSE IF s[p] = NL THEN <<cur>> \o SplitFrom(s, p + 1, <<>>)
    ELSE SplitFrom(s, p + 1, Append(cur, s[p]))

\* code.split("\n"): always at least one piece, [""] for the empty string
Split(s) == SplitFrom(s, 1, <<>>)

RECURSIVE TrimStart(_)
TrimStart(s) ==
    IF s # <<>> /\ Head(s) \in WhiteSpace THEN TrimStart(Tail(s)) ELSE s

RECURSIVE TrimEnd(_)
TrimEnd(s) ==
    IF s # <<>> /\ s[Len(s)] \in WhiteSpace
    THEN TrimEnd(SubSeq(s, 1, Len(s) - 1))
    ELSE s

\* line.trim()
Trim(s) == TrimEnd(TrimStart(s))

\* s.startsWith(prefix)
StartsWith(s, prefix) ==
    Len(s) >= Len(prefix) /\ SubSeq(s, 1, Len(prefix)) = prefix

\* lines joined by "\n": the text whose split gives the lines back
RECURSIVE JoinLines(_)
JoinLines(ls) ==
    IF ls = <<>> THEN <<>>
    ELSE IF Len(ls) = 1 THEN ls[1]
    ELSE ls[1] \o <<NL>> \o JoinLines(Tail(ls))

(***************************************************************************)
(* detectDuplication                                                       *)
(***************************************************************************)
\* a minimum one line short
minLengthMut == 3 - 1
\* minimum lines for duplication
minLength == 3

\* code.split("\n").map(trim).filter(nonempty)
NonBlankLines(s) ==
    LET ls == Split(s)
        trimmed == [n \in 1..Len(ls) |-> Trim(ls[n])]
    IN  SelectSeq(trimmed, LAMBDA l : Len(l) > 0)

RECURSIVE MatchLengthFrom(_, _, _, _)
\* the while loop: lines are 0-indexed in the code, 1-indexed here
MatchLengthFrom(lines, i, j, matchLength) ==
    IF /\ i + matchLength < Len(lines)
       /\ j + matchLength < Len(lines)
       /\ lines[i + matchLength + 1] = lines[j + matchLength + 1]
    THEN MatchLengthFrom(lines, i, j, matchLength + 1)
    ELSE matchLength

\* a comparison that stops where the second run starts
MatchLengthApart(lines, i, j) ==
    IF MatchLengthFrom(lines, i, j, 0) > j - i THEN j - i ELSE MatchLengthFrom(lines, i, j, 0)
MatchLength(lines, i, j) == MatchLengthFrom(lines, i, j, 0)

RECURSIVE DuplicatesFrom(_, _, _)
\* the two nested for loops, from the iteration (i, j) on, in loop order
DuplicatesFrom(lines, i, j) ==
    IF ~(i < Len(lines) - minLength) THEN <<>>
    ELSE IF ~(j < Len(lines)) THEN DuplicatesFrom(lines, i + 1, i + 1 + minLength)
    ELSE LET matchLength == MatchLength(lines, i, j)
             here == IF matchLength >= minLength
                     THEN << [lines1 |-> <<i + 1, i + matchLength>>,
                              lines2 |-> <<j + 1, j + matchLength>>,
                              length |-> matchLength] >>
                     ELSE <<>>
         IN  here \o DuplicatesFrom(lines, i, j + 1)

RECURSIVE SumLength(_)
\* duplicates.reduce((sum, d) => sum + d.length, 0)
SumLength(ds) == IF ds = <<>> THEN 0 ELSE Head(ds).length + SumLength(Tail(ds))

\* (total / count) * 100 rounded to 2 decimals, in hundredths; 0 / 0 is NaN
Percentage(total, count) ==
    IF count = 0 THEN NaN ELSE Num(RoundDiv(total * 10000, count))

detectDuplication(s) ==
    LET lines == NonBlankLines(s)
        duplicates == DuplicatesFrom(lines, 0, minLength)
        totalDuplicatedLines == SumLength(duplicates)
    IN  [duplicates |-> duplicates,
         totalDuplicatedLines |-> totalDuplicatedLines,
         duplicationPercentage |-> Percentage(totalDuplicatedLines, Len(lines))]

(***************************************************************************)
(* Logarithms in fixed point                                               *)
(***************************************************************************)
\* 2^10 and 2^20: a fixed-point number has 20 fractional bits, and products
\* are taken in halves of 10 bits so that no intermediate value passes 2^31
Half == 1024
One == 1048576

\* (a * b) / One for 0 <= a, b < 2 * One, truncated
MulFix(a, b) ==
    LET ah == a \div Half
        al == a % Half
        bh == b \div Half
        bl == b % Half
    IN  ah * bh + (ah * bl + al * bh) \div Half + (al * bl) \div One

RECURSIVE FloorLog2(_)
\* the largest e with 2^e <= x, for x >= 1
FloorLog2(x) == IF x < 2 THEN 0 ELSE 1 + FloorLog2(x \div 2)

RECURSIVE Pow2(_)
Pow2(e) == IF e = 0 THEN 1 ELSE 2 * Pow2(e - 1)

RECURSIVE FracBits(_, _, _)
RECURSIVE FracBitsAfter(_, _, _)
\* the fractional bits of log2(y / One) for One <= y < 2 * One, by repeated
\* squaring: bit b is set when the square reaches 2
FracBits(y, b, acc) ==
    IF b > 20 THEN acc ELSE FracBitsAfter(MulFix(y, y), b, acc)

\* sq is the square taken for bit b
FracBitsAfter(sq, b, acc) ==
    IF sq >= 2 * One
    THEN FracBits(sq \div 2, b + 1, acc + One \div Pow2(b))
    ELSE FracBits(sq, b + 1, acc)

\* Math.log2(x) for an integer 1 <= x < 2048: the integer part, and the
\* fraction scaled by One
Log2Parts(x) ==
    [int |-> FloorLog2(x),
     frac |-> FracBits((x * One) \div Pow2(FloorLog2(x)), 1, 0)]

\* ln(2) * 10^6
Ln2Micro == 693147

\* Math.log(x) * 10^6 for an integer 1 <= x < 2048
LnMicroOf(l) ==
    l.int * Ln2Micro + ((l.frac \div Half) * Ln2Micro) \div Half
        + ((l.frac % Half) * Ln2Micro) \div One

LnMicro(x) == LnMicroOf(Log2Parts(x))

(***************************************************************************)
(* calculateHalsteadMetrics: the regular expressions                       *)
(***************************************************************************)
Lower ==
    {"a", "b", "c", "d", "e", "f", "g", "h", "i", "j", "k", "l", "m",
     "n", "o", "p", "q", "r", "s", "t", "u", "v", "w", "x", "y", "z"}
Upper ==
    {"A", "B", "C", "D", "E", "F", "G", "H", "I", "J", "K", "L", "M",
     "N", "O", "P", "Q", "R", "S", "T", "U", "V", "W", "X", "Y", "Z"}
Digit == {"0", "1", "2", "3", "4", "5", "6", "7", "8", "9"}
\* \w
WordChar == Lower \cup Upper \cup Digit \cup {"_"}
\* [a-zA-Z_$] and [a-zA-Z0-9_$]
IdentStart == Lower \cup Upper \cup {"_", "$"}
IdentPart == IdentStart \cup Digit
\* the backquote character, which no TLA+ string can hold
BackQuote == "backquote"
\* the three quote characters of the string pattern
Quote == {"'", "\"", BackQuote}

\* the character at position p (1-based) is in class cls
In(s, p, cls) == p >= 1 /\ p <= Len(s) /\ s[p] \in cls

\* \b between positions p - 1 and p
WordBoundary(s, p) == In(s, p - 1, WordChar) # In(s, p, WordChar)

\* the length of the match of operator pattern n at position p, 0 for none
\* (no operator pattern matches the empty string)
OperatorMatch(n, s, p) ==
    CASE n = 1 ->  \* /\+\+|--/
             IF In(s, p, {"+"}) /\ In(s, p + 1, {"+"}) THEN 2
             ELSE IF In(s, p, {"-"}) /\ In(s, p + 1, {"-"}) THEN 2 ELSE 0
      [] n = 2 ->  \* /[+\-*/%]/
             IF In(s, p, {"+", "-", "*", "/", "%"}) THEN 1 ELSE 0
      [] n = 3 ->  \* /[<>]=?|[!=]==?/
             IF In(s, p, {"<", ">"})
             THEN (IF In(s, p + 1, {"="}) THEN 2 ELSE 1)
             ELSE IF In(s, p, {"!", "="}) /\ In(s, p + 1, {"="})
             THEN (IF In(s, p + 2, {"="}) THEN 3 ELSE 2)
             ELSE 0
      [] n = 4 ->  \* /&&|\|\|/
             IF In(s, p, {"&"}) /\ In(s, p + 1, {"&"}) THEN 2
             ELSE IF In(s, p, {"|"}) /\ In(s, p + 1, {"|"}) THEN 2 ELSE 0
      [] n = 5 ->  \* /[&|^~]/
             IF In(s, p, {"&", "|", "^", "~"}) THEN 1 ELSE 0
      [] n = 6 ->  \* /[=!]=?/
             IF In(s, p, {"=", "!"})
             THEN (IF In(s, p + 1, {"="}) THEN 2 ELSE 1)
             ELSE 0
      [] n = 7 ->  \* /\?|:/
             IF In(s, p, {"?", ":"}) THEN 1 ELSE 0
      [] n = 8 ->  \* /\./
             IF In(s, p, {"."}) THEN 1 ELSE 0
      [] n = 9 ->  \* /\[|\]/
             IF In(s, p, {"[", "]"}) THEN 1 ELSE 0
      [] n = 10 -> \* /\(|\)/
             IF In(s, p, {"(", ")"}) THEN 1 ELSE 0
      [] n = 11 -> \* /{|}|;|,/
             IF In(s, p, {"{", "}", ";", ","}) THEN 1 ELSE 0

NumOperatorPatterns == 11

RECURSIVE RunLength(_, _, _)
\* how many consecutive characters from position p on are in class cls
RunLength(s, p, cls) ==
    IF In(s, p, cls) THEN 1 + RunLength(s, p + 1, cls) ELSE 0

RECURSIVE LongestWithBoundary(_, _, _, _)
\* the largest len in lo..hi with a word boundary after s[p .. p+len-1], or 0:
\* what backtracking from the greedy match finds first
LongestWithBoundary(s, p, lo, hi) ==
    IF hi < lo THEN 0
    ELSE IF WordBoundary(s, p + hi) THEN hi
    ELSE LongestWithBoundary(s, p, lo, hi - 1)

\* /\b[a-zA-Z_$][a-zA-Z0-9_$]*\b/ at position p
IdentifierMatch(s, p) ==
    IF WordBoundary(s, p) /\ In(s, p, IdentStart)
    THEN LongestWithBoundary(s, p, 1, 1 + RunLength(s, p + 1, IdentPart))
    ELSE 0

\* /\b\d+\.?\d*\b/ at position p.  With m the run of digits at p, every
\* shorter \d+ ends between two digits, where \b fails; so the candidates
\* are, in backtracking order, m digits + "." + k..0 digits, then m digits.
NumberMatch(s, p) ==
    IF ~(WordBoundary(s, p) /\ In(s, p, Digit)) THEN 0
    ELSE LET m == RunLength(s, p, Digit)
             withDot ==
                 IF In(s, p + m, {"."})
                 THEN LongestWithBoundary(s, p, m + 1,
                                          m + 1 + RunLength(s, p + m + 1, Digit))
                 ELSE 0
         IN  IF withDot > 0 THEN withDot
             ELSE IF WordBoundary(s, p + m) THEN m ELSE 0

\* the string pattern /[Q][^Q]*[Q]/, Q the three quote characters, at
\* position p: up to the next quote of any kind
StringMatch(s, p) ==
    IF ~In(s, p, Quote) THEN 0
    ELSE LET body == RunLength(s, p + 1, {c \in Range(s) : c \notin Quote})
         IN  IF In(s, p + 1 + body, Quote) THEN body + 2 ELSE 0

\* operand pattern n at position p: identifiers, numbers, strings
OperandMatch(n, s, p) ==
    CASE n = 1 -> IdentifierMatch(s, p)
      [] n = 2 -> NumberMatch(s, p)
      [] n = 3 -> StringMatch(s, p)

NumOperandPatterns == 3

(***************************************************************************)
(* calculateHalsteadMetrics                                                *)
(***************************************************************************)
\* the reserved words that are not operands
keywords ==
    {<<"i", "f">>,
     <<"e", "l", "s", "e">>,
     <<"f", "o", "r">>,
     <<"w", "h", "i", "l", "e">>,
     <<"d", "o">>,
     <<"s", "w", "i", "t", "c", "h">>,
     <<"c", "a", "s", "e">>,
     <<"b", "r", "e", "a", "k">>,
     <<"c", "o", "n", "t", "i", "n", "u", "e">>,
     <<"r", "e", "t", "u", "r", "n">>,
     <<"f", "u", "n", "c", "t", "i", "o", "n">>,
     <<"c", "o", "n", "s", "t">>,
     <<"l", "e", "t">>,
     <<"v", "a", "r">>,
     <<"c", "l", "a", "s", "s">>,
     <<"i", "m", "p", "o", "r", "t">>,
     <<"e", "x", "p", "o", "r", "t">>}

PatternMatch(kind, n, s, p) ==
    IF kind = "operator" THEN OperatorMatch(n, s, p) ELSE OperandMatch(n, s, p)

RECURSIVE MatchesFrom(_, _, _, _)
RECURSIVE MatchesAfter(_, _, _, _, _)
\* code.match(pattern) with the g flag, from position p on: the matches from
\* left to right, each search resuming after the previous match
MatchesFrom(kind, n, s, p) ==
    IF p > Len(s) THEN <<>>
    ELSE MatchesAfter(kind, n, s, p, PatternMatch(kind, n, s, p))

\* len is the length of the match at position p, 0 for none
MatchesAfter(kind, n, s, p, len) ==
    IF len > 0
    THEN <<SubSeq(s, p, p + len - 1)>> \o MatchesFrom(kind, n, s, p + len)
    ELSE MatchesFrom(kind, n, s, p + 1)

RECURSIVE AllMatches(_, _, _, _)
\* patterns.forEach(pattern => matches.forEach(...)): the matches of patterns
\* n..last, pattern by pattern
AllMatches(kind, n, last, s) ==
    IF n > last THEN <<>>
    ELSE MatchesFrom(kind, n, s, 1) \o AllMatches(kind, n + 1, last, s)

\* every operator match, counted once per pattern that finds it
OperatorTokens(s) == AllMatches("operator", 1, NumOperatorPatterns, s)

\* every operand match that is not a keyword
OperandTokens(s) ==
    SelectSeq(AllMatches("operand", 1, NumOperandPatterns, s),
              LAMBDA t : t \notin keywords)

\* the record, from the four counts and log2 of the vocabulary (or of 1)
HalsteadRecord(n1, n2, N1, N2, l) ==
    LET N == N1 + N2
        n2div == IF n2 = 0 THEN 1 ELSE n2
        \* N * log2(n || 1) in thousandths, for effort, time and bugs
        volumeMilli == N * l.int * 1000 + (N * (l.frac \div Half) * 1000) \div Half
    IN  [n1 |-> n1,
         n2 |-> n2,
         N1 |-> N1,
         N2 |-> N2,
         vocabulary |-> n1 + n2,
         length |-> N,
         \* Math.round(N * log2(n || 1))
         volume |-> N * l.int + (N * l.frac + One \div 2) \div One,
         \* (n1 / 2) * (N2 / (n2 || 1)), rounded to 2 decimals, in hundredths
         difficulty |-> RoundDiv(50 * n1 * N2, n2div),
         \* difficulty * volume, both unrounded
         effort |-> RoundDiv(n1 * N2 * (volumeMilli \div 10), 200 * n2div),
         \* effort / 18
         timeToProgram |-> RoundDiv(n1 * N2 * (volumeMilli \div 10), 3600 * n2div),
         \* volume / 3000, rounded to 2 decimals, in hundredths
         estimatedBugs |-> RoundDiv(volumeMilli, 30000)]

\* the sizes of the two sets and the two totals
HalsteadCounts(n1, n2, N1, N2) ==
    HalsteadRecord(n1, n2, N1, N2, Log2Parts(OrOne(n1 + n2)))

\* the "|| 1" put on the two set sizes instead of the denominators
HalsteadOfClamped(operators, operands) ==
    HalsteadCounts(OrOne(Cardinality(Range(operators))),
                   OrOne(Cardinality(Range(operands))),
                   Len(operators), Len(operands))

\* the counts of the two sets and of the two lists of matches
HalsteadOf(operators, operands) ==
    HalsteadCounts(Cardinality(Range(operators)), Cardinality(Range(operands)),
                   Len(operators), Len(operands))

calculateHalsteadMetrics(s) == HalsteadOf(OperatorTokens(s), OperandTokens(s))

(***************************************************************************)
(* calculateMaintainabilityIndex                                           *)
(***************************************************************************)
\* 171 - 5.2 ln(HV) - 0.23 CC - 16.2 ln(LOC), in units of 10^-7, for
\* non-negative integer arguments below 2048 (CC below 200)
MaintainabilityRaw(cyclomaticComplexity, halsteadVolume, linesOfCode) ==
    1710000000 - 52 * LnMicro(OrOne(halsteadVolume))
        - 2300000 * OrOne(cyclomaticComplexity)
        - 162 * LnMicro(OrOne(linesOfCode))

\* Math.max(lo, Math.min(hi, x))
Clamp(lo, hi, x) == IF x < lo THEN lo ELSE IF x > hi THEN hi ELSE x

\* Math.round(MI) for MI in units of 10^-7: halves round up
RoundIndex(MI) == (MI + 5000000) \div 10000000

\* no normalisation: MI passes through unchanged
NormalizeNot(MI) == MI

\* MI = Math.max(0, Math.min(100, MI)), in units of 10^-7
Normalize(MI) == Clamp(0, 1000000000, MI)

calculateMaintainabilityIndex(cyclomaticComplexity, halsteadVolume, linesOfCode) ==
    RoundIndex(Normalize(
        MaintainabilityRaw(cyclomaticComplexity, halsteadVolume, linesOfCode)))

(***************************************************************************)
(* Trees: the values a syntax tree is made of                              *)
(***************************************************************************)
Null == [k |-> "null"]
Prim == [k |-> "prim"]
Str(x) == [k |-> "str", s |-> x]
Arr(elems) == [k |-> "arr", e |-> elems]
Obj(fields) == [k |-> "obj", f |-> fields]
\* a reference to an object that encloses the one holding it
Cyc == [k |-> "cyc"]
\* true and false
Bool(b) == [k |-> "bool", b |-> b]
Field(key, val) == [key |-> key, val |-> val]
\* an object with a type discriminator
Node(type, fields) == Obj(<<Field("type", Str(type))>> \o fields)

\* !node || typeof node !== "object"
NotAnObject(v) == v.k \in {"null", "prim", "str", "bool"}

\* node.type, "" when the node has none or it is no string
TypeOf(v) ==
    IF v.k = "obj" /\ \E n \in 1..Len(v.f) : v.f[n].key = "type" /\ v.f[n].val.k = "str"
    THEN LET n == CHOOSE m \in 1..Len(v.f) : v.f[m].key = "type" /\ v.f[m].val.k = "str"
         IN  v.f[n].val.s
    ELSE ""

\* the children "for (const key in node)" reaches, in key order: the fields
\* of an object except loc and type, the elements of an array
ChildrenOf(v) ==
    IF v.k = "arr" THEN v.e
    ELSE LET kept == SelectSeq(v.f, LAMBDA fd : fd.key \notin {"loc", "type"})
         IN  [n \in 1..Len(kept) |-> kept[n].val]

(***************************************************************************)
(* calculateCyclomaticComplexity                                           *)
(***************************************************************************)
\* the list without the logical operators
decisionNodesNoLogical ==
    {"IfStatement", "ConditionalExpression", "SwitchCase", "ForStatement",
     "ForInStatement", "ForOfStatement", "WhileStatement", "DoWhileStatement",
     "CatchClause"}
\* the list with the blocks in it
decisionNodesWithBlock ==
    {"IfStatement", "ConditionalExpression", "SwitchCase", "ForStatement",
     "ForInStatement", "ForOfStatement", "WhileStatement", "DoWhileStatement",
     "CatchClause", "LogicalExpression", "BlockStatement"}
\* decision points that increase complexity
decisionNodes ==
    {"IfStatement", "ConditionalExpression", "SwitchCase", "ForStatement",
     "ForInStatement", "ForOfStatement", "WhileStatement", "DoWhileStatement",
     "CatchClause", "LogicalExpression"}

RECURSIVE CycloTraverse(_, _)
RECURSIVE CycloEach(_, _, _)
RECURSIVE CycloKeys(_, _, _)

\* traverse(node), st being the closure's state [complexity, threw]
CycloTraverse(node, st) ==
    IF st.threw \/ NotAnObject(node) THEN st
    \* an object that encloses itself is traversed without end: the call
    \* stack overflows and a RangeError is thrown
    ELSE IF node.k = "cyc" THEN [st EXCEPT !.threw = TRUE]
    ELSE LET counted == IF TypeOf(node) \in decisionNodes
                        THEN [st EXCEPT !.complexity = @ + 1]
                        ELSE st
         IN  CycloKeys(ChildrenOf(node), 1, counted)

\* child.forEach(traverse), from element n on
CycloEach(elems, n, st) ==
    IF n > Len(elems) THEN st
    ELSE CycloEach(elems, n + 1, CycloTraverse(elems[n], st))

\* the loop over the keys of a node, from child n on
CycloKeys(children, n, st) ==
    IF n > Len(children) THEN st
    ELSE LET child == children[n]
             after == IF child.k = "arr" THEN CycloEach(child.e, 1, st)
                      ELSE IF ~NotAnObject(child) THEN CycloTraverse(child, st)
                      ELSE st
         IN  CycloKeys(children, n + 1, after)

\* [threw, value]: value is the complexity when nothing was thrown
calculateCyclomaticComplexity(tree) ==
    LET st == CycloTraverse(tree, [complexity |-> 1, threw |-> FALSE])
    IN  [threw |-> st.threw, value |-> st.complexity]

RECURSIVE TraverseOrder(_, _)
RECURSIVE EachOrder(_, _, _)
RECURSIVE KeysOrder(_, _, _)

\* child.forEach(traverse) for the array at a place, from element n on
EachOrder(arr, path, n) ==
    IF n > Len(arr.e) THEN <<>>
    ELSE TraverseOrder(arr.e[n], path \o <<n>>) \o EachOrder(arr, path, n + 1)

\* the loop over the keys of the node at a place, from child n on
KeysOrder(node, path, n) ==
    IF n > Len(ChildrenOf(node)) THEN <<>>
    ELSE LET child == ChildrenOf(node)[n]
         IN  (IF child.k = "arr" THEN EachOrder(child, path \o <<n>>, 1)
              ELSE IF ~NotAnObject(child) THEN TraverseOrder(child, path \o <<n>>)
              ELSE <<>>)
             \o KeysOrder(node, path, n + 1)

\* a traversal that handles a node after its children
TraverseOrderAfter(node, path) ==
    IF NotAnObject(node) THEN <<>> ELSE KeysOrder(node, path, 1) \o <<path>>
\* the places at which traverse(node) gets past its first line, in the order
\* of the calls: the node, then what the loop over its keys reaches
TraverseOrder(node, path) ==
    IF NotAnObject(node) THEN <<>> ELSE <<path>> \o KeysOrder(node, path, 1)

(***************************************************************************)
(* calculateCognitiveComplexity                                            *)
(***************************************************************************)
\* the list with the identifiers in it
nestingNodesWithIdentifier ==
    {"IfStatement", "ForStatement", "ForInStatement", "ForOfStatement",
     "WhileStatement", "DoWhileStatement", "SwitchStatement", "CatchClause",
     "Identifier"}
\* the list without the switch statement
nestingNodesNoSwitch ==
    {"IfStatement", "ForStatement", "ForInStatement", "ForOfStatement",
     "WhileStatement", "DoWhileStatement", "CatchClause"}
\* nesting increment nodes
nestingNodes ==
    {"IfStatement", "ForStatement", "ForInStatement", "ForOfStatement",
     "WhileStatement", "DoWhileStatement", "SwitchStatement", "CatchClause"}

RECURSIVE CogTraverse(_, _)
RECURSIVE CogEach(_, _, _)
RECURSIVE CogKeys(_, _, _)

\* traverse(node), st being the closure's state
\* [complexity, nestingLevel, threw]
CogTraverse(node, st) ==
    IF st.threw \/ NotAnObject(node) THEN st
    ELSE IF node.k = "cyc" THEN [st EXCEPT !.threw = TRUE]
    ELSE LET wasNesting == TypeOf(node) \in nestingNodes
             entered == IF wasNesting
                        THEN [st EXCEPT !.nestingLevel = @ + 1,
                                        !.complexity = @ + st.nestingLevel + 1]
                        ELSE st
             logical == IF TypeOf(node) = "LogicalExpression"
                        THEN [entered EXCEPT !.complexity = @ + 1]
                        ELSE entered
             walked == CogKeys(ChildrenOf(node), 1, logical)
         IN  IF wasNesting /\ ~walked.threw
             THEN [walked EXCEPT !.nestingLevel = @ - 1]
             ELSE walked

CogEach(elems, n, st) ==
    IF n > Len(elems) THEN st
    ELSE CogEach(elems, n + 1, CogTraverse(elems[n], st))

CogKeys(children, n, st) ==
    IF n > Len(children) THEN st
    ELSE LET child == children[n]
             after == IF child.k = "arr" THEN CogEach(child.e, 1, st)
                      ELSE IF ~NotAnObject(child) THEN CogTraverse(child, st)
                      ELSE st
         IN  CogKeys(children, n + 1, after)

calculateCognitiveComplexity(tree) ==
    LET st == CogTraverse(tree, [complexity |-> 0, nestingLevel |-> 0, threw |-> FALSE])
    IN  [threw |-> st.threw, value |-> st.complexity]

(***************************************************************************)
(* calculateTechnicalDebt                                                  *)
(***************************************************************************)
\* An issue (vulnerability or code smell) is null or an object with a
\* severity; the severity "" stands for a missing one.
Issue(severity) == [k |-> "obj", severity |-> severity]

\* the property names every object literal inherits from Object.prototype
InheritedNames ==
    {"constructor", "toString", "toLocaleString", "valueOf", "hasOwnProperty",
     "isPrototypeOf", "propertyIsEnumerable", "__proto__"}

\* weights[severity] is an inherited function or object and not a number
Inherited(severity) == severity \in InheritedNames

\* a table in which every known severity weighs one hour
vulnerabilityWeightsFlat(severity) == 1000
\* vulnerabilityWeights[severity] || 1, in thousandths of an hour, for a
\* severity that does not name an inherited property
vulnerabilityWeights(severity) ==
    CASE severity = "Critical" -> 4000
      [] severity = "High" -> 2000
      [] severity = "Medium" -> 1000
      [] severity = "Low" -> 500
      [] OTHER -> 1000

\* smellWeights[severity] || 0.5, in thousandths of an hour, for a severity
\* that does not name an inherited property
smellWeights(severity) ==
    CASE severity = "High" -> 1000
      [] severity = "Medium" -> 500
      [] severity = "Low" -> 250
      [] OTHER -> 500

\* debtHours += w, unless a later issue throws
AddWeight(w, rest) ==
    [threw |-> rest.threw, nan |-> rest.nan, value |-> w + rest.value]

\* debtHours += f for an inherited function or object f: debtHours becomes
\* a string, and Math.round of it is NaN
AddInherited(rest) == [threw |-> rest.threw, nan |-> TRUE, value |-> rest.value]

RECURSIVE IssueDebt(_, _)
\* issues.forEach(issue => debtHours += weight[issue.severity] || default):
\* [threw, nan, value], reading .severity of null throws a TypeError
IssueDebt(issues, kind) ==
    IF issues = <<>> THEN [threw |-> FALSE, nan |-> FALSE, value |-> 0]
    ELSE IF Head(issues).k = "null" THEN [threw |-> TRUE, nan |-> FALSE, value |-> 0]
    ELSE IF Inherited(Head(issues).severity)
    THEN AddInherited(IssueDebt(Tail(issues), kind))
    ELSE AddWeight(IF kind = "vulnerability"
                   THEN vulnerabilityWeights(Head(issues).severity)
                   ELSE smellWeights(Head(issues).severity),
                   IssueDebt(Tail(issues), kind))

\* the complexity term with its operands swapped
ComplexityDebtSwapped(metrics) ==
    IF metrics.cyclomaticComplexity > 20
    THEN (20 - metrics.cyclomaticComplexity) * 500
    ELSE 0
\* (cyclomaticComplexity - 20) * 0.5 above 20, in thousandths of an hour
ComplexityDebt(metrics) ==
    IF metrics.cyclomaticComplexity > 20
    THEN (metrics.cyclomaticComplexity - 20) * 500
    ELSE 0

\* (duplicationPercentage - 10) * 0.3 above 10, in thousandths of an hour;
\* the percentage is read in hundredths
DuplicationDebt(metrics) ==
    IF JsGreater(Get(metrics, "duplicationPercentage"), 1000)
    THEN (Get(metrics, "duplicationPercentage").v - 1000) * 3
    ELSE 0

\* (50 - maintainabilityIndex) * 0.2 below 50, in thousandths of an hour
MaintainabilityDebt(metrics) ==
    IF metrics.maintainabilityIndex < 50
    THEN (50 - metrics.maintainabilityIndex) * 200
    ELSE 0

\* Math.round(debtHours * 100) / 100 in hundredths of an hour, the issue
\* terms being [threw, value]
DebtOf(metricsDebt, security, smell) ==
    IF security.threw \/ smell.threw
    THEN [threw |-> TRUE, nan |-> FALSE, value |-> 0]
    ELSE [threw |-> FALSE,
          nan |-> security.nan \/ smell.nan,
          value |-> RoundDiv(metricsDebt + security.value + smell.value, 10)]

\* [threw, nan, value]: value is the debt in hundredths of an hour, to be
\* read when nan is false; when nan is true the call returns NaN
calculateTechnicalDebt(metrics, vulns, smells) ==
    DebtOf(ComplexityDebt(metrics) + DuplicationDebt(metrics)
               + MaintainabilityDebt(metrics),
           IssueDebt(vulns, "vulnerability"), IssueDebt(smells, "smell"))

(***************************************************************************)
(* calculateAllMetrics                                                     *)
(***************************************************************************)
\* the record of an object literal with no property
EmptyObject == [x \in {} |-> 0]

CodeLines(lines) ==
    SelectSeq(lines, LAMBDA line :
        LET trimmed == Trim(line)
        IN  /\ Len(trimmed) > 0
            /\ ~StartsWith(trimmed, <<"/", "/">>)
            /\ ~StartsWith(trimmed, <<"/", "*">>))

CommentLines(lines) ==
    SelectSeq(lines, LAMBDA line :
        LET trimmed == Trim(line)
        IN  \/ StartsWith(trimmed, <<"/", "/">>)
            \/ StartsWith(trimmed, <<"/", "*">>)
            \/ StartsWith(trimmed, <<"*">>))

\* Math.max(0, 100 - duplicationPercentage * 2), in hundredths
DuplicationTerm(duplicationPercentage) ==
    MathMax0(IF IsNum(duplicationPercentage)
             THEN Num(10000 - 2 * duplicationPercentage.v)
             ELSE NaN)

\* a blend in which the four parts weigh the same
QualityOfEqualWeights(maintainabilityIndex, cyclomaticComplexity, dupTerm, commentRatio) ==
    IF IsNum(dupTerm)
    THEN MathMax0(MathMin(100, Num(
             (maintainabilityIndex * 250
              + Clamp(0, 100, 100 - cyclomaticComplexity * 2) * 250
              + (dupTerm.v * 5) \div 2 + (commentRatio * 5) \div 2 + 500) \div 1000)))
    ELSE NaN
\* Math.round(a*0.4 + b*0.2 + dupTerm*0.2 + d*0.2) clamped to 0..100;
\* dupTerm is in hundredths and may be NaN, d is in hundredths
QualityOf(maintainabilityIndex, cyclomaticComplexity, dupTerm, commentRatio) ==
    IF IsNum(dupTerm)
    THEN MathMax0(MathMin(100, Num(
             (maintainabilityIndex * 400
              + Clamp(0, 100, 100 - cyclomaticComplexity * 2) * 200
              + dupTerm.v * 2 + commentRatio * 2 + 500) \div 1000)))
    ELSE NaN

QualityScore(maintainabilityIndex, cyclomaticComplexity, duplicationPercentage, commentRatio) ==
    QualityOf(maintainabilityIndex, cyclomaticComplexity,
              DuplicationTerm(duplicationPercentage), commentRatio)

\* the record of the catch branch
FallbackRecord(s) ==
    [linesOfCode |-> Len(Split(s)),
     codeLines |-> 0,
     commentLines |-> 0,
     blankLines |-> 0,
     commentRatio |-> 0,
     cyclomaticComplexity |-> 1,
     cognitiveComplexity |-> 0,
     maintainabilityIndex |-> 50,
     halstead |-> EmptyObject,
     duplication |-> [percentage |-> Num(0), instances |-> 0, totalLines |-> 0],
     technicalDebt |-> 0,
     qualityScore |-> Num(50)]

\* the metrics object literal, before technicalDebt and qualityScore are set
MetricsLiteral(linesOfCode, codeLines, commentLines, cyclomaticComplexity, cognitiveComplexity, maintainabilityIndex, halstead, duplication) ==
    [linesOfCode |-> linesOfCode,
     codeLines |-> codeLines,
     commentLines |-> commentLines,
     blankLines |-> linesOfCode - codeLines - commentLines,
     commentRatio |-> RoundDiv(commentLines * 10000, OrOne(codeLines)),
     cyclomaticComplexity |-> cyclomaticComplexity,
     cognitiveComplexity |-> cognitiveComplexity,
     maintainabilityIndex |-> maintainabilityIndex,
     halstead |-> halstead,
     duplication |-> [percentage |-> duplication.duplicationPercentage,
                      instances |-> Len(duplication.duplicates),
                      totalLines |-> duplication.totalDuplicatedLines]]

\* metrics.technicalDebt = ...; metrics.qualityScore = ...; return metrics
WithScores(metrics, debt) ==
    IF debt.threw THEN [threw |-> TRUE, value |-> EmptyObject]
    ELSE [threw |-> FALSE,
          value |-> [f \in DOMAIN metrics \cup {"technicalDebt", "qualityScore"} |->
                        IF f = "technicalDebt"
                        THEN (IF debt.nan THEN NaN ELSE debt.value)
                        ELSE IF f = "qualityScore"
                        THEN QualityScore(metrics.maintainabilityIndex,
                                          metrics.cyclomaticComplexity,
                                          metrics.duplication.percentage,
                                          metrics.commentRatio)
                        ELSE metrics[f]]]

Scored(metrics, vulns, smells) ==
    WithScores(metrics, calculateTechnicalDebt(metrics, vulns, smells))

\* the try block once the calculators have run, each result [threw, value]
Assemble(linesOfCode, codeLines, commentLines, cyclo, halstead, cognitive, duplication, vulns, smells) ==
    IF cyclo.threw \/ cognitive.threw THEN [threw |-> TRUE, value |-> EmptyObject]
    ELSE Scored(MetricsLiteral(linesOfCode, codeLines, commentLines, cyclo.value,
                               cognitive.value,
                               calculateMaintainabilityIndex(cyclo.value,
                                                             halstead.volume,
                                                             codeLines),
                               halstead, duplication),
                vulns, smells)

\* the calculator called without the test of the tree, and failing on null
CyclomaticUnguarded(tree) ==
    IF tree.k # "null" THEN calculateCyclomaticComplexity(tree)
    ELSE [threw |-> TRUE, value |-> 1]

\* the tree-based calculators are skipped for a null tree
CyclomaticOrDefault(tree) ==
    IF tree.k # "null" THEN calculateCyclomaticComplexity(tree)
    ELSE [threw |-> FALSE, value |-> 1]
CognitiveOrDefault(tree) ==
    IF tree.k # "null" THEN calculateCognitiveComplexity(tree)
    ELSE [threw |-> FALSE, value |-> 0]

\* the try block: [threw, value]
TryBlock(s, tree, vulns, smells) ==
    Assemble(Len(Split(s)), Len(CodeLines(Split(s))), Len(CommentLines(Split(s))),
             CyclomaticOrDefault(tree), calculateHalsteadMetrics(s),
             CognitiveOrDefault(tree), detectDuplication(s), vulns, smells)

\* a catch branch that throws again: the promise is rejected
SettleRethrow(s, try) ==
    IF try.threw
    THEN [outcome |-> "rejected", threw |-> TRUE, value |-> EmptyObject]
    ELSE [outcome |-> "fulfilled", threw |-> FALSE, value |-> try.value]

\* a catch branch that reports the worst scores instead of the middle ones
SettleWorstScores(s, try) ==
    IF try.threw
    THEN [outcome |-> "fulfilled", threw |-> TRUE,
          value |-> [FallbackRecord(s) EXCEPT !.maintainabilityIndex = 0,
                                              !.qualityScore = Num(0)]]
    ELSE [outcome |-> "fulfilled", threw |-> FALSE, value |-> try.value]

\* try { ... return metrics } catch { return fallback }: the settled
\* promise, whether the try block threw, and the record
Settle(s, try) ==
    IF try.threw
    THEN [outcome |-> "fulfilled", threw |-> TRUE, value |-> FallbackRecord(s)]
    ELSE [outcome |-> "fulfilled", threw |-> FALSE, value |-> try.value]

calculateAllMetrics(s, tree, vulns, smells) ==
    Settle(s, TryBlock(s, tree, vulns, smells))

(***************************************************************************)
(* Inputs                                                                  *)
(***************************************************************************)
\* the sequences over S of length 0..n
SeqsUpTo(S, n) == UNION {[1..m -> S] : m \in 0..n}

\* the sequences over S of length lo..hi with no element twice
DistinctSeqs(S, lo, hi) ==
    {q \in UNION {[1..m -> S] : m \in lo..hi} :
        \A a, b \in 1..Len(q) : a # b => q[a] # q[b]}

NoIssue == <<>>
NoMetrics == [cyclomaticComplexity |-> 0,
              duplicationPercentage |-> Num(0),
              maintainabilityIndex |-> 0]
NoMiArgs == [cyclomaticComplexity |-> 0, halsteadVolume |-> 0, linesOfCode |-> 0]
NoScenario == [n |-> 0, m |-> 0, indented |-> FALSE]
NotCalled == [outcome |-> "pending"]
\* no traversal in progress, no accumulator declared, no call made, no
\* analysis requested, no event emitted
NoWalk == <<>>
NoClosure == <<>>
NoCalls == <<>>
NoAnalysis == <<>>
NoEvents == <<>>

(***************************************************************************)
(* Spec: one call of calculateAllMetrics                                   *)
(***************************************************************************)
\* the longest text of code lines, in lines
MaxLines == 6
\* the longest text of mixed lines, in lines
MaxMixedLines == 3

\* a blank line and a line of code
CoreLines == {<<>>, <<"x", "=", "1", ";">>}
\* blank, code, comments after white space, a line starting with a star
MixedLines ==
    {<<" ">>,
     <<"i", "f", "(", "a", "&", "&", "b", ")">>,
     <<" ", "/", "/", "c">>,
     <<"*", " ", "d">>}

Texts ==
    {JoinLines(ls) : ls \in SeqsUpTo(CoreLines, MaxLines)}
        \cup {JoinLines(ls) : ls \in SeqsUpTo(MixedLines, MaxMixedLines)}

\* a program with no decision point
PlainTree ==
    Node("Program", <<Field("body", Arr(<<
        Node("ExpressionStatement", <<Field("expression", Prim)>>)>>))>>)
\* an if inside a for, with a logical test and a location object
BranchyTree ==
    Node("Program", <<Field("body", Arr(<<
        Node("ForStatement", <<
            Field("loc", Node("IfStatement", <<>>)),
            Field("test", Null),
            Field("body", Node("IfStatement", <<
                Field("test", Node("LogicalExpression", <<Field("operator", Prim)>>)),
                Field("alternate", Null)>>))>>)>>))>>)
\* a tree whose node refers back to its parent
CyclicTree ==
    Node("Program", <<Field("body", Arr(<<
        Node("IfStatement", <<Field("parent", Cyc)>>)>>))>>)

Trees == {Null, PlainTree, BranchyTree, CyclicTree}

VulnerabilityLists ==
    {<<>>, <<Issue("Critical"), Issue("low")>>, <<Issue("High"), Null>>}
CodeSmellLists == {<<>>, <<Issue("Low")>>, <<Null>>}

Init ==
    /\ code \in Texts
    /\ ast \in Trees
    /\ vulnerabilities \in VulnerabilityLists
    /\ codeSmells \in CodeSmellLists
    /\ walk = NoWalk
    /\ closure = NoClosure
    /\ calls = NoCalls
    /\ metricsArg = NoMetrics
    /\ miArgs = NoMiArgs
    /\ scenario = NoScenario
    /\ pc = "ready"
    /\ ret = NotCalled
    /\ analysis = NoAnalysis
    /\ events = NoEvents

\* await calculateAllMetrics(code, ast, language, vulnerabilities, codeSmells)
CalculateAllMetrics ==
    /\ pc = "ready"
    /\ ret' = calculateAllMetrics(code, ast, vulnerabilities, codeSmells)
    /\ pc' = "done"
    /\ UNCHANGED <<code, ast, vulnerabilities, codeSmells, metricsArg, miArgs, scenario, walk, closure, calls, analysis, events>>

Next == CalculateAllMetrics

Spec == Init /\ [][Next]_vars

(***************************************************************************)
(* Claims about calculateAllMetrics, checked under Spec                    *)
(***************************************************************************)
Done == pc = "done"

\* the properties of a metrics record
MetricsFields ==
    {"linesOfCode", "codeLines", "commentLines", "blankLines", "commentRatio",
     "cyclomaticComplexity", "cognitiveComplexity", "maintainabilityIndex",
     "halstead", "duplication", "technicalDebt", "qualityScore"}

\* C1: calculateAllMetrics never raises: whatever the text, the tree and the
\* issue lists, the promise is fulfilled with a metrics record, also when
\* the try block threw.
C1_NeverRaises ==
    Done => /\ ret.outcome = "fulfilled"
            /\ DOMAIN ret.value = MetricsFields

\* the try block threw (a null issue or a tree that encloses itself) and the
\* call has returned
C1_Witness == Done /\ ret.threw /\ ret.outcome = "fulfilled"

\* C2: whenever a step of the try block throws, the record returned is the
\* fixed fallback: complexity 1, cognitive 0, maintainability 50, quality 50,
\* debt 0, duplication 0/0/0, and nothing computed by the try block is in it.
C2_FallbackRecord ==
    (Done /\ ret.threw) =>
        /\ ret.outcome = "fulfilled"
        /\ ret.value.cyclomaticComplexity = 1
        /\ ret.value.cognitiveComplexity = 0
        /\ ret.value.maintainabilityIndex = 50
        /\ ret.value.qualityScore = Num(50)
        /\ ret.value.technicalDebt = 0
        /\ ret.value.duplication = [percentage |-> Num(0), instances |-> 0, totalLines |-> 0]
        /\ ret.value.codeLines = 0
        /\ ret.value.commentLines = 0
        /\ ret.value.blankLines = 0
        /\ ret.value.commentRatio = 0
        /\ DOMAIN ret.value.halstead = {}

\* the try block threw on a text with code lines, under a tree with decision
\* points, after the calculators that precede the throw had results
C2_Witness ==
    /\ Done
    /\ ret.threw
    /\ Len(CodeLines(Split(code))) > 0
    /\ ast = BranchyTree
    /\ \E n \in 1..Len(vulnerabilities) : vulnerabilities[n].k = "null"

\* C3: for the empty string, calculateAllMetrics returns, without raising,
\* cyclomaticComplexity 1, maintainabilityIndex at most 100 and
\* qualityScore 50 (the tree being null or without decision point, and no
\* issue being null).
C3_EmptyString ==
    (Done /\ code = <<>> /\ ~ret.threw /\ (ast.k = "null" \/ ast = PlainTree)) =>
        /\ ret.outcome = "fulfilled"
        /\ ret.value.cyclomaticComplexity = 1
        /\ ret.value.maintainabilityIndex <= 100
        /\ ret.value.qualityScore = Num(50)

\* C4: in every record returned, qualityScore is a number within 0..100.
C4_QualityInRange ==
    Done => /\ IsNum(ret.value.qualityScore)
            /\ ret.value.qualityScore.v \in 0..100

\* the additive model on a returned record, in thousandths of an hour; the
\* issue weights are taken as the code applies them
AdditiveModel(record, vulns, smells) ==
    (IF record.cyclomaticComplexity > 20
     THEN (record.cyclomaticComplexity - 20) * 500 ELSE 0)
    + (IF JsGreater(record.duplication.percentage, 1000)
       THEN (record.duplication.percentage.v - 1000) * 3 ELSE 0)
    + (IF record.maintainabilityIndex < 50
       THEN (50 - record.maintainabilityIndex) * 200 ELSE 0)
    + IssueDebt(vulns, "vulnerability").value
    + IssueDebt(smells, "smell").value

\* C8: the technicalDebt of a returned record is the additive model on that
\* record, with 0.3 h for every point of the record's duplication
\* percentage above 10, rounded to 2 decimals.
C8_DebtIsAdditiveModel ==
    (Done /\ ~ret.threw) =>
        ret.value.technicalDebt
            = RoundDiv(AdditiveModel(ret.value, vulnerabilities, codeSmells), 10)

\* no element of the two issue lists is null
NoNullIssue ==
    /\ \A n \in 1..Len(vulnerabilities) : vulnerabilities[n].k # "null"
    /\ \A n \in 1..Len(codeSmells) : codeSmells[n].k # "null"

\* the duplication entry of the record, from what detectDuplication returns
DuplicationEntry(duplication) ==
    [percentage |-> duplication.duplicationPercentage,
     instances |-> Len(duplication.duplicates),
     totalLines |-> duplication.totalDuplicatedLines]

\* C16: with a null tree the tree calculators are skipped, the record has
\* cyclomaticComplexity 1 and cognitiveComplexity 0, and the Halstead
\* metrics, the duplication, the line counts, the maintainability index,
\* the technical debt and the quality score are computed from the text
\* (no issue of the two lists being null).
C16_NullTreeDefaults ==
    (Done /\ ast = Null /\ NoNullIssue) =>
        /\ ~ret.threw
        /\ ret.value.cyclomaticComplexity = 1
        /\ ret.value.cognitiveComplexity = 0
        /\ ret.value.halstead = calculateHalsteadMetrics(code)
        /\ ret.value.duplication = DuplicationEntry(detectDuplication(code))
        /\ ret.value.linesOfCode = Len(Split(code))
        /\ ret.value.codeLines = Len(CodeLines(Split(code)))
        /\ ret.value.commentLines = Len(CommentLines(Split(code)))
        /\ ret.value.maintainabilityIndex
               = calculateMaintainabilityIndex(1, ret.value.halstead.volume,
                                               ret.value.codeLines)
        /\ ret.value.technicalDebt
               = calculateTechnicalDebt(ret.value, vulnerabilities, codeSmells).value
        /\ ret.value.qualityScore
               = QualityScore(ret.value.maintainabilityIndex, 1,
                              ret.value.duplication.percentage,
                              ret.value.commentRatio)

\* a text with code, a comment and issues went through with a null tree
C16_Witness ==
    /\ Done
    /\ ast = Null
    /\ NoNullIssue
    /\ ret.value.halstead.volume > 0
    /\ ret.value.commentLines > 0
    /\ ret.value.technicalDebt > 0

(***************************************************************************)
(* SpecDup: one call of detectDuplication on any short text                *)
(***************************************************************************)
\* the longest text handed to detectDuplication, in lines
MaxDupLines == 7

\* a blank line, a line, the same line inside white space, another line
DupLines == {<<>>, <<"a">>, <<" ", "a", "\t">>, <<"b">>}

DupTexts == {JoinLines(ls) : ls \in SeqsUpTo(DupLines, MaxDupLines)}

InitDup ==
    /\ code \in DupTexts
    /\ ast = Null
    /\ vulnerabilities = NoIssue
    /\ codeSmells = NoIssue
    /\ walk = NoWalk
    /\ closure = NoClosure
    /\ calls = NoCalls
    /\ metricsArg = NoMetrics
    /\ miArgs = NoMiArgs
    /\ scenario = NoScenario
    /\ pc = "ready"
    /\ ret = NotCalled
    /\ analysis = NoAnalysis
    /\ events = NoEvents

\* detectDuplication(code)
DetectDuplication ==
    /\ pc = "ready"
    /\ ret' = [outcome |-> "returned", value |-> detectDuplication(code)]
    /\ pc' = "done"
    /\ UNCHANGED <<code, ast, vulnerabilities, codeSmells, metricsArg, miArgs, scenario, walk, closure, calls, analysis, events>>

NextDup == DetectDuplication

SpecDup == InitDup /\ [][NextDup]_vars

\* C5: for every text, the duplicationPercentage returned by
\* detectDuplication is a number within 0..100 (here in hundredths).
C5_PercentageInRange ==
    Done => /\ IsNum(ret.value.duplicationPercentage)
            /\ ret.value.duplicationPercentage.v \in 0..10000

\* no run of 3 consecutive lines of L occurs at two start positions at
\* least 3 apart
NoRepeatedRun(L) ==
    ~\E i, j \in 1..Len(L) :
        /\ j >= i + 3
        /\ j + 2 <= Len(L)
        /\ \A d \in 0..2 : L[i + d] = L[j + d]

\* C7: for every text whose non-blank trimmed lines hold no repeated run of
\* 3 or more lines, detectDuplication returns no duplicate and a
\* duplicationPercentage equal to 0; texts with fewer than 3 non-blank
\* lines, or none, are among them.
C7_NoRepeatNoDuplication ==
    (Done /\ NoRepeatedRun(NonBlankLines(code))) =>
        /\ ret.value.duplicates = <<>>
        /\ ret.value.duplicationPercentage = Num(0)

(***************************************************************************)
(* SpecBlocks: detectDuplication on two identical blocks                   *)
(***************************************************************************)
\* the longest block, in lines
MaxBlock == 5
\* the most unique lines between the two blocks
MaxUnique == 2

BlockPool == {<<"a">>, <<"b">>, <<"c">>, <<"d">>, <<"e">>, <<"f">>}
UniquePool == {<<"u">>, <<"v">>, <<"w">>}

\* every line of the block after a tab
Indented(block) == [n \in 1..Len(block) |-> <<"\t">> \o block[n]]

\* block, unique lines, the block again (indented or not, after a blank line)
TwoBlocks(block, sep, indented) ==
    JoinLines(block \o sep \o
              (IF indented THEN <<<<>>>> \o Indented(block) ELSE block))

InitBlocks ==
    /\ \E n \in 3..MaxBlock, m \in 1..MaxUnique, indented \in BOOLEAN :
         /\ scenario = [n |-> n, m |-> m, indented |-> indented]
         /\ \E block \in DistinctSeqs(BlockPool, n, n),
               sep \in DistinctSeqs(UniquePool, m, m) :
                code = TwoBlocks(block, sep, indented)
    /\ ast = Null
    /\ vulnerabilities = NoIssue
    /\ codeSmells = NoIssue
    /\ walk = NoWalk
    /\ closure = NoClosure
    /\ calls = NoCalls
    /\ metricsArg = NoMetrics
    /\ miArgs = NoMiArgs
    /\ pc = "ready"
    /\ ret = NotCalled
    /\ analysis = NoAnalysis
    /\ events = NoEvents

NextBlocks == DetectDuplication

SpecBlocks == InitBlocks /\ [][NextBlocks]_vars

RECURSIVE SumDownTo3(_)
SumDownTo3(n) == IF n < 3 THEN 0 ELSE n + SumDownTo3(n - 1)

MinComplexity == 18
MaxComplexity == 23
\* duplication percentages, in hundredths, and the step between two of them
MinDuplication == 930
MaxDuplication == 1140
DuplicationStep == 35
MinMaintainability == 47
MaxMaintainability == 52
\* the longest lists of issues
MaxVulnerabilities == 2
MaxCodeSmells == 1

\* severities with a weight, one in the wrong case, and a missing one
VulnerabilitySeverities == {"Critical", "Low", "high", ""}
CodeSmellSeverities == {"High", "Low", "minor"}

\* the hours returned for the current arguments
DebtNow(metrics, vulns, smells) ==
    [outcome |-> "returned", value |-> calculateTechnicalDebt(metrics, vulns, smells).value]

InitDebt ==
    /\ code = <<>>
    /\ ast = Null
    /\ vulnerabilities = NoIssue
    /\ codeSmells = NoIssue
    /\ walk = NoWalk
    /\ closure = NoClosure
    /\ calls = NoCalls
    /\ metricsArg = [cyclomaticComplexity |-> MinComplexity,
                     duplicationPercentage |-> Num(MinDuplication),
                     maintainabilityIndex |-> MaxMaintainability]
    /\ miArgs = NoMiArgs
    /\ scenario = NoScenario
    /\ pc = "done"
    /\ ret = DebtNow(metricsArg, vulnerabilities, codeSmells)
    /\ analysis = NoAnalysis
    /\ events = NoEvents

\* the same call with cyclomaticComplexity one higher
RaiseComplexity ==
    /\ metricsArg.cyclomaticComplexity < MaxComplexity
    /\ metricsArg' = [metricsArg EXCEPT !.cyclomaticComplexity = @ + 1]
    /\ ret' = DebtNow(metricsArg', vulnerabilities, codeSmells)
    /\ UNCHANGED <<code, ast, vulnerabilities, codeSmells, miArgs, scenario, pc, walk, closure, calls, analysis, events>>

\* the same call with a higher duplicationPercentage
RaiseDuplication ==
    /\ metricsArg.duplicationPercentage.v + DuplicationStep <= MaxDuplication
    /\ metricsArg' = [metricsArg EXCEPT !.duplicationPercentage =
                          Num(@.v + DuplicationStep)]
    /\ ret' = DebtNow(metricsArg', vulnerabilities, codeSmells)
    /\ UNCHANGED <<code, ast, vulnerabilities, codeSmells, miArgs, scenario, pc, walk, closure, calls, analysis, events>>

\* the same call with maintainabilityIndex one lower
LowerMaintainability ==
    /\ metricsArg.maintainabilityIndex > MinMaintainability
    /\ metricsArg' = [metricsArg EXCEPT !.maintainabilityIndex = @ - 1]
    /\ ret' = DebtNow(metricsArg', vulnerabilities, codeSmells)
    /\ UNCHANGED <<code, ast, vulnerabilities, codeSmells, miArgs, scenario, pc, walk, closure, calls, analysis, events>>

\* the same call with one more vulnerability
AddVulnerability ==
    /\ Len(vulnerabilities) < MaxVulnerabilities
    /\ \E severity \in VulnerabilitySeverities :
         vulnerabilities' = Append(vulnerabilities, Issue(severity))
    /\ ret' = DebtNow(metricsArg, vulnerabilities', codeSmells)
    /\ UNCHANGED <<code, ast, codeSmells, metricsArg, miArgs, scenario, pc, walk, closure, calls, analysis, events>>

\* the same call with one more code smell
AddCodeSmell ==
    /\ Len(codeSmells) < MaxCodeSmells
    /\ \E severity \in CodeSmellSeverities :
         codeSmells' = Append(codeSmells, Issue(severity))
    /\ ret' = DebtNow(metricsArg, vulnerabilities, codeSmells')
    /\ UNCHANGED <<code, ast, vulnerabilities, metricsArg, miArgs, scenario, pc, walk, closure, calls, analysis, events>>

NextDebt ==
    \/ RaiseComplexity
    \/ RaiseDuplication
    \/ LowerMaintainability
    \/ AddVulnerability
    \/ AddCodeSmell

SpecDebt == InitDebt /\ [][NextDebt]_vars

\* C9: calculateTechnicalDebt is monotonic: raising cyclomaticComplexity,
\* raising duplicationPercentage, lowering maintainabilityIndex, adding a
\* vulnerability or adding a code smell, the rest held fixed, never
\* decreases the hours returned, and the hours are never negative.
C9_Monotonic ==
    /\ [](ret.value >= 0)
    /\ [][ret'.value >= ret.value]_vars

\* every term of the debt is at work: complexity above 20, duplication
\* above 10 %, maintainability below 50, issues of both kinds
C9_Witness ==
    /\ metricsArg.cyclomaticComplexity > 20
    /\ metricsArg.duplicationPercentage.v > 1000
    /\ metricsArg.maintainabilityIndex < 50
    /\ Len(vulnerabilities) = 2
    /\ Len(codeSmells) = 1
    /\ ret.value > 0

(***************************************************************************)
(* SpecMI: one call of calculateMaintainabilityIndex                       *)
(***************************************************************************)
\* the largest arguments; the logarithms are taken below 2048
MaxIndexComplexity == 150
MaxVolume == 2000
MaxCodeLines == 2000

\* 0, which the code takes for 1, then values of every size
Sizes(max) == {0, 1, 2, 3, 10, 30, 100, 300, 1000, max}

InitMI ==
    /\ code = <<>>
    /\ ast = Null
    /\ vulnerabilities = NoIssue
    /\ codeSmells = NoIssue
    /\ walk = NoWalk
    /\ closure = NoClosure
    /\ calls = NoCalls
    /\ metricsArg = NoMetrics
    /\ miArgs \in [cyclomaticComplexity : 0..MaxIndexComplexity,
                   halsteadVolume : Sizes(MaxVolume),
                   linesOfCode : Sizes(MaxCodeLines)]
    /\ scenario = NoScenario
    /\ pc = "ready"
    /\ ret = NotCalled
    /\ analysis = NoAnalysis
    /\ events = NoEvents

\* calculateMaintainabilityIndex(cyclomaticComplexity, halsteadVolume, linesOfCode)
CalculateMaintainabilityIndex ==
    /\ pc = "ready"
    /\ ret' = [outcome |-> "returned",
               value |-> calculateMaintainabilityIndex(miArgs.cyclomaticComplexity,
                                                       miArgs.halsteadVolume,
                                                       miArgs.linesOfCode)]
    /\ pc' = "done"
    /\ UNCHANGED <<code, ast, vulnerabilities, codeSmells, metricsArg, miArgs, scenario, walk, closure, calls, analysis, events>>

NextMI == CalculateMaintainabilityIndex

SpecMI == InitMI /\ [][NextMI]_vars

MaxChain == 4
\* the deepest nest of if-statements
MaxNested == 5

\* a type that counts for both calculators, one for the nesting only, two
\* for the decisions only, one for neither
TreeTypes ==
    {"IfStatement", "SwitchStatement", "ConditionalExpression",
     "LogicalExpression", "Identifier"}

RECURSIVE ChainTree(_, _)
\* the nodes of the given types, each inside the one before; a wide node
\* holds its child in an array, between a logical test and an if-statement
ChainTree(types, wide) ==
    IF types = <<>> THEN Null
    ELSE IF wide
    THEN Node(Head(types), <<
             Field("test", Node("LogicalExpression", <<Field("operator", Prim)>>)),
             Field("body", Arr(<<ChainTree(Tail(types), wide),
                                 Node("IfStatement", <<Field("test", Prim)>>)>>))>>)
    ELSE Node(Head(types), <<Field("start", Prim),
                             Field("body", ChainTree(Tail(types), wide))>>)

RECURSIVE NestedIfs(_)
\* n if-statements, each in the block of the one before
NestedIfs(n) ==
    IF n = 0 THEN Node("ExpressionStatement", <<Field("expression", Prim)>>)
    ELSE Node("IfStatement", <<
             Field("test", Node("Identifier", <<Field("name", Prim)>>)),
             Field("consequent", Node("BlockStatement", <<
                 Field("body", Arr(<<NestedIfs(n - 1)>>))>>)),
             Field("alternate", Null)>>)

\* the program around n nested if-statements
NestedProgram(n) == Node("Program", <<Field("body", Arr(<<NestedIfs(n)>>))>>)

\* an if statement held by an object that has no type
WrappedTree ==
    Node("Program", <<
        Field("extra", Obj(<<Field("inner", Node("IfStatement", <<Field("test", Prim)>>))>>)),
        Field("body", Arr(<<>>))>>)

SmallTrees ==
    {ChainTree(types, wide) : types \in SeqsUpTo(TreeTypes, MaxChain), wide \in BOOLEAN}
        \cup {NestedProgram(n) : n \in 0..MaxNested}
        \cup {PlainTree, BranchyTree, WrappedTree}

InitTree ==
    /\ code = <<>>
    /\ ast \in SmallTrees
    /\ vulnerabilities = NoIssue
    /\ codeSmells = NoIssue
    /\ walk = NoWalk
    /\ closure = NoClosure
    /\ calls = NoCalls
    /\ metricsArg = NoMetrics
    /\ miArgs = NoMiArgs
    /\ scenario = NoScenario
    /\ pc = "ready"
    /\ ret = NotCalled
    /\ analysis = NoAnalysis
    /\ events = NoEvents

\* calculateCyclomaticComplexity(ast)
CalculateCyclomaticComplexity ==
    /\ pc = "ready"
    /\ ret' = [outcome |-> "returned", of |-> "cyclomatic",
               value |-> calculateCyclomaticComplexity(ast).value]
    /\ pc' = "done"
    /\ UNCHANGED <<code, ast, vulnerabilities, codeSmells, metricsArg, miArgs, scenario, walk, closure, calls, analysis, events>>

\* calculateCognitiveComplexity(ast)
CalculateCognitiveComplexity ==
    /\ pc = "ready"
    /\ ret' = [outcome |-> "returned", of |-> "cognitive",
               value |-> calculateCognitiveComplexity(ast).value]
    /\ pc' = "done"
    /\ UNCHANGED <<code, ast, vulnerabilities, codeSmells, metricsArg, miArgs, scenario, walk, closure, calls, analysis, events>>

\* traverse(ast), as every calculator and extractor starts it
Traverse ==
    /\ pc = "ready"
    /\ ret' = [outcome |-> "returned", of |-> "traverse",
               value |-> TraverseOrder(ast, <<>>)]
    /\ pc' = "done"
    /\ UNCHANGED <<code, ast, vulnerabilities, codeSmells, metricsArg, miArgs, scenario, walk, closure, calls, analysis, events>>

NextTree ==
    \/ CalculateCyclomaticComplexity
    \/ CalculateCognitiveComplexity
    \/ Traverse

SpecTree == InitTree /\ [][NextTree]_vars

RECURSIVE Paths(_)
\* the places of a tree: the sequences of child positions that lead from
\* the root to a value, the keys loc and type holding no child
Paths(v) ==
    IF v.k \notin {"obj", "arr"} THEN {<<>>}
    ELSE {<<>>} \cup UNION {{<<n>> \o q : q \in Paths(ChildrenOf(v)[n])} :
                              n \in 1..Len(ChildrenOf(v))}

RECURSIVE NodeAt(_, _)
\* the value at a place
NodeAt(v, path) ==
    IF path = <<>> THEN v ELSE NodeAt(ChildrenOf(v)[Head(path)], Tail(path))

\* the places that hold a node of one of the types
NodesOfType(tree, types) == {q \in Paths(tree) : TypeOf(NodeAt(tree, q)) \in types}

\* the ten types the cyclomatic complexity is said to count
DecisionTypes ==
    {"IfStatement", "ConditionalExpression", "SwitchCase", "ForStatement",
     "ForInStatement", "ForOfStatement", "WhileStatement", "DoWhileStatement",
     "CatchClause", "LogicalExpression"}

\* the eight types said to increase the nesting: if, for, for-in, for-of,
\* while, do-while, switch, catch
NestingTypes ==
    {"IfStatement", "ForStatement", "ForInStatement", "ForOfStatement",
     "WhileStatement", "DoWhileStatement", "SwitchStatement", "CatchClause"}

\* how many nesting-increasing nodes lie on the way to a place, the node at
\* the place included
NestingDepth(tree, path) ==
    Cardinality({n \in 0..Len(path) :
                    TypeOf(NodeAt(tree, SubSeq(path, 1, n))) \in NestingTypes})

RECURSIVE SumOver(_, _, _)
\* the sum of the nesting depths of a set of places
SumOver(tree, places, acc) ==
    IF places = {} THEN acc
    ELSE LET q == CHOOSE x \in places : TRUE
         IN  SumOver(tree, places \ {q}, acc + NestingDepth(tree, q))

\* C11: calculateCyclomaticComplexity returns 1 plus the number of nodes of
\* the tree with a decision type, each counted once whatever the order of
\* the children; so at least 1 for every tree, the null tree included, and
\* exactly 1 for a tree with no such node.
C11_OnePlusDecisionNodes ==
    (Done /\ ret.of = "cyclomatic") =>
        /\ ret.value = 1 + Cardinality(NodesOfType(ast, DecisionTypes))
        /\ ret.value >= 1
        /\ calculateCyclomaticComplexity(Null) = [threw |-> FALSE, value |-> 1]

\* a tree with three decision nodes or more, one of them beside a subtree
C11_Witness ==
    /\ Done
    /\ ret.of = "cyclomatic"
    /\ ret.value >= 4
    /\ \E q \in Paths(ast) : NodeAt(ast, q).k = "arr" /\ Len(NodeAt(ast, q).e) > 1

\* C12: calculateCognitiveComplexity returns at least 0 for every tree, and
\* exactly 0 for a tree with no nesting-increasing node and no
\* LogicalExpression node.
C12_CognitiveNotNegative ==
    (Done /\ ret.of = "cognitive") =>
        /\ ret.value >= 0
        /\ NodesOfType(ast, NestingTypes \cup {"LogicalExpression"}) = {} => ret.value = 0

\* a tree of several nodes, none of them nesting or logical, got 0
C12_Witness ==
    /\ Done
    /\ ret.of = "cognitive"
    /\ ret.value = 0
    /\ Cardinality(NodesOfType(ast, {"ConditionalExpression", "Identifier"})) >= 3

\* how many if-statements a tree of nested if-statements holds, 0 for any
\* other tree
NestedCount(tree) ==
    IF \E n \in 1..MaxNested : tree = NestedProgram(n)
    THEN CHOOSE n \in 1..MaxNested : tree = NestedProgram(n)
    ELSE 0

\* C13: for n if-statements nested one inside the other and no other
\* decision node, calculateCognitiveComplexity returns 1+2+...+n and
\* calculateCyclomaticComplexity returns n+1.
C13_NestedIfs ==
    (Done /\ NestedCount(ast) > 0) =>
        /\ ret.of = "cognitive" => 2 * ret.value = NestedCount(ast) * (NestedCount(ast) + 1)
        /\ ret.of = "cyclomatic" => ret.value = NestedCount(ast) + 1

\* five nested if-statements got the cognitive complexity 15
C13_Witness ==
    /\ Done
    /\ ast = NestedProgram(5)
    /\ ret.of = "cognitive"
    /\ ret.value = 15

\* C19: calculateCognitiveComplexity returns the sum, over the
\* nesting-increasing nodes, of the node's nesting depth counted with
\* itself, plus 1 for every LogicalExpression node at any depth.
C19_SumOfDepths ==
    (Done /\ ret.of = "cognitive") =>
        ret.value = SumOver(ast, NodesOfType(ast, NestingTypes), 0)
                        + Cardinality(NodesOfType(ast, {"LogicalExpression"}))

\* a logical expression two levels deep counted 1, beside a nesting node
\* that counted its depth
C19_Witness ==
    /\ Done
    /\ ret.of = "cognitive"
    /\ \E q \in NodesOfType(ast, {"LogicalExpression"}) : NestingDepth(ast, q) >= 2
    /\ \E q \in NodesOfType(ast, NestingTypes) : NestingDepth(ast, q) >= 3

(***************************************************************************)
(* SpecHalstead: one call of calculateHalsteadMetrics on a short text      *)
(***************************************************************************)
\* the longest text handed to calculateHalsteadMetrics, in characters
MaxHalsteadLen == 3

\* characters no pattern matches (space, hash), the letters of a keyword, a
\* digit, operators and a quote
HalsteadChars == {" ", "#", "d", "o", "1", "+", "=", "'", "."}

HalsteadTexts == SeqsUpTo(HalsteadChars, MaxHalsteadLen)

InitHalstead ==
    /\ code \in HalsteadTexts
    /\ ast = Null
    /\ vulnerabilities = NoIssue
    /\ codeSmells = NoIssue
    /\ walk = NoWalk
    /\ closure = NoClosure
    /\ calls = NoCalls
    /\ metricsArg = NoMetrics
    /\ miArgs = NoMiArgs
    /\ scenario = NoScenario
    /\ pc = "ready"
    /\ ret = NotCalled
    /\ analysis = NoAnalysis
    /\ events = NoEvents

\* calculateHalsteadMetrics(code)
CalculateHalsteadMetrics ==
    /\ pc = "ready"
    /\ ret' = [outcome |-> "returned", value |-> calculateHalsteadMetrics(code)]
    /\ pc' = "done"
    /\ UNCHANGED <<code, ast, vulnerabilities, codeSmells, metricsArg, miArgs, scenario, walk, closure, calls, analysis, events>>

NextHalstead == CalculateHalsteadMetrics

SpecHalstead == InitHalstead /\ [][NextHalstead]_vars

\* C14: in every record calculateHalsteadMetrics returns, the one for a text
\* with no operator and no operand included, the vocabulary is at least 1.
C14_VocabularyAtLeastOne == Done => ret.value.vocabulary >= 1

\* no operator pattern and no operand pattern matches anywhere in the text
NoPatternMatches(s) ==
    /\ AllMatches("operator", 1, NumOperatorPatterns, s) = <<>>
    /\ AllMatches("operand", 1, NumOperandPatterns, s) = <<>>

\* C15: calculateHalsteadMetrics returns on every string, every field a
\* finite number, and for a text in which no operator pattern and no
\* operand pattern matches the volume, the difficulty and all counts are 0.
C15_NoMatchAllZero ==
    Done =>
        /\ ret.outcome = "returned"
        /\ \A field \in DOMAIN ret.value : ret.value[field] \in Nat
        /\ NoPatternMatches(code) =>
             /\ ret.value.volume = 0
             /\ ret.value.difficulty = 0
             /\ \A field \in {"n1", "n2", "N1", "N2", "vocabulary", "length",
                              "effort", "timeToProgram", "estimatedBugs"} :
                    ret.value[field] = 0

\* a text of spaces and hashes, where nothing matches, got its record
C15_Witness ==
    /\ Done
    /\ Len(code) = MaxHalsteadLen
    /\ NoPatternMatches(code)
    /\ ret.value.volume = 0

(***************************************************************************)
(* SpecWalk: two invocations of calculateCognitiveComplexity, each taken   *)
(* one step of its traversal at a time, in any interleaving                *)
(***************************************************************************)
\* the longest chain of nested nodes walked, in nodes
MaxWalkChain == 2

\* the invocations in progress
Walkers == {"a", "b"}

\* a nesting-increasing type and one that is not
WalkTypes == {"IfStatement", "Identifier"}

WalkTrees ==
    {ChainTree(types, wide) : types \in SeqsUpTo(WalkTypes, MaxWalkChain), wide \in BOOLEAN}

\* one accumulator pair for all invocations
ClosureShared(p) == "a"
\* let complexity = 0; let nestingLevel = 0: declared inside the function,
\* so each invocation has its own pair
ClosureOf(p) == p

\* the accumulators after the entry of a node of the given type: the level
\* goes up and is added for a nesting node, 1 is added for a logical one
Entered(acc, type) ==
    LET level == IF type \in nestingNodes THEN acc.nestingLevel + 1 ELSE acc.nestingLevel
    IN  [complexity |-> acc.complexity
                            + (IF type \in nestingNodes THEN level ELSE 0)
                            + (IF type = "LogicalExpression" THEN 1 ELSE 0),
         nestingLevel |-> level]

\* an exit that leaves the level as it is
LevelOnExitKept(level, wasNesting) == level
\* if (wasNesting) nestingLevel--
LevelOnExit(level, wasNesting) == IF wasNesting THEN level - 1 ELSE level

\* what is left to do: traverse the value at a place, or end the traversal
\* of the node at a place, entered at the given level
VisitItem(path) == [op |-> "visit", path |-> path]
LeaveItem(path, entry) == [op |-> "leave", path |-> path, entry |-> entry]

\* the calls of traverse a node makes, in order: one per element of an
\* array, one per property that holds an object or an array (an array held
\* by a property is walked as a node without type)
ChildItems(v, path) ==
    LET positions == SelectSeq([n \in 1..Len(ChildrenOf(v)) |-> n],
                               LAMBDA n : v.k = "arr" \/ ~NotAnObject(ChildrenOf(v)[n]))
    IN  [n \in 1..Len(positions) |-> VisitItem(path \o <<positions[n]>>)]

\* an invocation right after its accumulators are declared
Started(tree) ==
    [tree |-> tree, stack |-> <<VisitItem(<<>>)>>, status |-> "running", result |-> 0]

InitWalk ==
    /\ code = <<>>
    /\ ast = Null
    /\ vulnerabilities = NoIssue
    /\ codeSmells = NoIssue
    /\ metricsArg = NoMetrics
    /\ miArgs = NoMiArgs
    /\ scenario = NoScenario
    /\ pc = "ready"
    /\ ret = NotCalled
    /\ walk \in [Walkers -> {Started(tree) : tree \in WalkTrees}]
    /\ closure = [p \in Walkers |-> [complexity |-> 0, nestingLevel |-> 0]]
    /\ calls = NoCalls
    /\ analysis = NoAnalysis
    /\ events = NoEvents

\* traverse(node) up to its loop over the keys
Enter(p) ==
    /\ walk[p].status = "running"
    /\ walk[p].stack # <<>>
    /\ Head(walk[p].stack).op = "visit"
    /\ LET item == Head(walk[p].stack)
           node == NodeAt(walk[p].tree, item.path)
       IN  IF NotAnObject(node)
           THEN /\ walk' = [walk EXCEPT ![p].stack = Tail(@)]
                /\ UNCHANGED closure
           ELSE /\ closure' = [closure EXCEPT ![ClosureOf(p)] = Entered(@, TypeOf(node))]
                /\ walk' = [walk EXCEPT ![p].stack =
                               ChildItems(node, item.path)
                                   \o <<LeaveItem(item.path, closure[ClosureOf(p)].nestingLevel)>>
                                   \o Tail(@)]
    /\ UNCHANGED <<code, ast, vulnerabilities, codeSmells, metricsArg, miArgs, scenario, pc, ret, calls, analysis, events>>

\* the end of traverse(node), after the loop over the keys
Leave(p) ==
    /\ walk[p].status = "running"
    /\ walk[p].stack # <<>>
    /\ Head(walk[p].stack).op = "leave"
    /\ LET node == NodeAt(walk[p].tree, Head(walk[p].stack).path)
       IN  closure' = [closure EXCEPT ![ClosureOf(p)].nestingLevel =
                           LevelOnExit(@, TypeOf(node) \in nestingNodes)]
    /\ walk' = [walk EXCEPT ![p].stack = Tail(@)]
    /\ UNCHANGED <<code, ast, vulnerabilities, codeSmells, metricsArg, miArgs, scenario, pc, ret, calls, analysis, events>>

\* return complexity
Return(p) ==
    /\ walk[p].status = "running"
    /\ walk[p].stack = <<>>
    /\ walk' = [walk EXCEPT ![p].status = "returned",
                            ![p].result = closure[ClosureOf(p)].complexity]
    /\ UNCHANGED <<code, ast, vulnerabilities, codeSmells, metricsArg, miArgs, scenario, pc, ret, closure, calls, analysis, events>>

NextWalk ==
    \E p \in Walkers :
        \/ Enter(p)
        \/ Leave(p)
        \/ Return(p)

SpecWalk == InitWalk /\ [][NextWalk]_vars

\* the places of the nodes whose traversal is in progress, innermost first
InProgress(w) ==
    LET leaves == SelectSeq(w.stack, LAMBDA item : item.op = "leave")
    IN  [n \in 1..Len(leaves) |-> leaves[n].path]

\* the nesting level an invocation should be at: the nesting depth of the
\* node being visited, 0 outside the traversal
ExpectedLevel(w) ==
    IF InProgress(w) = <<>> THEN 0 ELSE NestingDepth(w.tree, Head(InProgress(w)))

\* C20: during calculateCognitiveComplexity the nesting level is never
\* negative, equals the number of nesting-increasing nodes among the node
\* being visited and its ancestors, is 0 when the traversal ends, and on
\* exit from any subtree is back at its value on entry to that subtree.
C20_StackDiscipline ==
    /\ [](\A p \in Walkers :
            /\ closure[ClosureOf(p)].nestingLevel >= 0
            /\ closure[ClosureOf(p)].nestingLevel = ExpectedLevel(walk[p])
            /\ walk[p].status = "returned" => closure[ClosureOf(p)].nestingLevel = 0)
    /\ [][\A p \in Walkers :
            (/\ walk[p].stack # <<>>
             /\ Head(walk[p].stack).op = "leave"
             /\ walk'[p].stack = Tail(walk[p].stack))
                => closure'[ClosureOf(p)].nestingLevel = Head(walk[p].stack).entry]_vars

\* a traversal that went two nesting levels down is over
C20_Witness ==
    /\ walk["a"].status = "returned"
    /\ \E q \in Paths(walk["a"].tree) : NestingDepth(walk["a"].tree, q) >= 2
    /\ closure[ClosureOf("a")].nestingLevel = 0

\* C18: invocations that run interleaved need no coordination: none of them
\* modifies its tree, and each returns what it returns when run alone.
C18_NoInterference ==
    /\ [](\A p \in Walkers :
            walk[p].status = "returned"
                => walk[p].result = calculateCognitiveComplexity(walk[p].tree).value)
    /\ [][\A p \in Walkers : walk'[p].tree = walk[p].tree]_vars

\* both invocations returned, each with a complexity of its own
C18_Witness ==
    /\ \A p \in Walkers : walk[p].status = "returned"
    /\ walk["a"].result > walk["b"].result
    /\ walk["b"].result > 0

(***************************************************************************)
(* SpecCalls: calls of the seven calculators one after the other, each     *)
(* call leaving behind the accumulators it declared                        *)
(***************************************************************************)
\* the most calls made in a row
MaxCalls == 3

\* a tree with decision points and one that makes the traversal throw
CallTrees == {BranchyTree, CyclicTree}
\* the empty text and "d+1"
CallTexts == {<<>>, <<"d", "+", "1">>}

\* let complexity = 1, whatever an earlier call left
NewCyclomatic(left) == [complexity |-> 1, threw |-> FALSE]
\* accumulators that go on from where the last call left them
KeptCognitive(left) == [left EXCEPT !.threw = FALSE]
\* let complexity = 0; let nestingLevel = 0, whatever an earlier call left
NewCognitive(left) == [complexity |-> 0, nestingLevel |-> 0, threw |-> FALSE]
\* new Set() twice and the two totals at 0, whatever an earlier call left
NewHalstead(left) == [operators |-> <<>>, operands |-> <<>>]

\* what the caller gets from a traversal: the exception or the count
Outcome(st) == [threw |-> st.threw, value |-> IF st.threw THEN 0 ELSE st.complexity]

\* the call recorded after the calls made so far
Called(fn, input, output) ==
    Append(calls, [fn |-> fn, input |-> input, output |-> output])

InitCalls ==
    /\ code = <<>>
    /\ ast = Null
    /\ vulnerabilities = NoIssue
    /\ codeSmells = NoIssue
    /\ metricsArg = NoMetrics
    /\ miArgs = NoMiArgs
    /\ scenario = NoScenario
    /\ pc = "ready"
    /\ ret = NotCalled
    /\ walk = NoWalk
    /\ closure = [cyclomatic |-> [complexity |-> 0, threw |-> FALSE],
                  cognitive |-> [complexity |-> 0, nestingLevel |-> 0, threw |-> FALSE],
                  halstead |-> [operators |-> <<>>, operands |-> <<>>]]
    /\ calls = <<>>
    /\ analysis = NoAnalysis
    /\ events = NoEvents

\* calculateCyclomaticComplexity(tree)
CallCyclomaticComplexity ==
    /\ Len(calls) < MaxCalls
    /\ \E tree \in CallTrees :
         /\ closure' = [closure EXCEPT !.cyclomatic =
                            CycloTraverse(tree, NewCyclomatic(@))]
         /\ calls' = Called("calculateCyclomaticComplexity", tree,
                            Outcome(closure'.cyclomatic))
    /\ UNCHANGED <<code, ast, vulnerabilities, codeSmells, metricsArg, miArgs, scenario, pc, ret, walk, analysis, events>>

\* calculateCognitiveComplexity(tree)
CallCognitiveComplexity ==
    /\ Len(calls) < MaxCalls
    /\ \E tree \in CallTrees :
         /\ closure' = [closure EXCEPT !.cognitive =
                            CogTraverse(tree, NewCognitive(@))]
         /\ calls' = Called("calculateCognitiveComplexity", tree,
                            Outcome(closure'.cognitive))
    /\ UNCHANGED <<code, ast, vulnerabilities, codeSmells, metricsArg, miArgs, scenario, pc, ret, walk, analysis, events>>

\* calculateHalsteadMetrics(text): the matches are added to the fresh sets
CallHalsteadMetrics ==
    /\ Len(calls) < MaxCalls
    /\ \E text \in CallTexts :
         /\ closure' = [closure EXCEPT !.halstead =
                            [operators |-> NewHalstead(@).operators \o OperatorTokens(text),
                             operands |-> NewHalstead(@).operands \o OperandTokens(text)]]
         /\ calls' = Called("calculateHalsteadMetrics", text,
                            HalsteadOf(closure'.halstead.operators,
                                       closure'.halstead.operands))
    /\ UNCHANGED <<code, ast, vulnerabilities, codeSmells, metricsArg, miArgs, scenario, pc, ret, walk, analysis, events>>

\* detectDuplication(text)
CallDetectDuplication ==
    /\ Len(calls) < MaxCalls
    /\ \E text \in CallTexts :
         calls' = Called("detectDuplication", text, detectDuplication(text))
    /\ UNCHANGED <<code, ast, vulnerabilities, codeSmells, metricsArg, miArgs, scenario, pc, ret, walk, closure, analysis, events>>

\* calculateMaintainabilityIndex(cyclomaticComplexity, halsteadVolume, linesOfCode)
CallMaintainabilityIndex ==
    /\ Len(calls) < MaxCalls
    /\ \E args \in {<<1, 0, 0>>, <<30, 1000, 300>>} :
         calls' = Called("calculateMaintainabilityIndex", args,
                         calculateMaintainabilityIndex(args[1], args[2], args[3]))
    /\ UNCHANGED <<code, ast, vulnerabilities, codeSmells, metricsArg, miArgs, scenario, pc, ret, walk, closure, analysis, events>>

\* calculateTechnicalDebt(metrics, vulnerabilities, []), the metrics being
\* past the three thresholds
CallTechnicalDebt ==
    /\ Len(calls) < MaxCalls
    /\ \E vulns \in {<<>>, <<Issue("High")>>} :
         calls' = Called("calculateTechnicalDebt", vulns,
                         calculateTechnicalDebt(
                             [cyclomaticComplexity |-> MaxComplexity,
                              duplicationPercentage |-> Num(MaxDuplication),
                              maintainabilityIndex |-> MinMaintainability],
                             vulns, <<>>))
    /\ UNCHANGED <<code, ast, vulnerabilities, codeSmells, metricsArg, miArgs, scenario, pc, ret, walk, closure, analysis, events>>

\* await calculateAllMetrics(text, tree, language, [], [])
CallAllMetrics ==
    /\ Len(calls) < MaxCalls
    /\ \E text \in CallTexts, tree \in CallTrees :
         calls' = Called("calculateAllMetrics", <<text, tree>>,
                         calculateAllMetrics(text, tree, <<>>, <<>>))
    /\ UNCHANGED <<code, ast, vulnerabilities, codeSmells, metricsArg, miArgs, scenario, pc, ret, walk, closure, analysis, events>>

NextCalls ==
    \/ CallCyclomaticComplexity
    \/ CallCognitiveComplexity
    \/ CallHalsteadMetrics
    \/ CallDetectDuplication
    \/ CallMaintainabilityIndex
    \/ CallTechnicalDebt
    \/ CallAllMetrics

SpecCalls == InitCalls /\ [][NextCalls]_vars

\* C17: every calculator is deterministic and keeps no state between calls:
\* two calls of the same calculator on the same input return the same
\* output, whatever calls were made in between.
C17_SameInputSameOutput ==
    \A m, n \in 1..Len(calls) :
        (calls[m].fn = calls[n].fn /\ calls[m].input = calls[n].input)
            => calls[m].output = calls[n].output

\* the same tree was given twice to calculateCognitiveComplexity, with a
\* traversal that threw in between
C17_Witness ==
    /\ Len(calls) = 3
    /\ calls[1].fn = "calculateCognitiveComplexity"
    /\ calls[1].input = BranchyTree
    /\ calls[2].fn = "calculateCognitiveComplexity"
    /\ calls[2].output.threw
    /\ calls[3].fn = "calculateCognitiveComplexity"
    /\ calls[3].input = BranchyTree

(***************************************************************************)
(* Claims about the traversal, checked under SpecTree                      *)
(***************************************************************************)
\* the places of a tree that hold a node (an object)
NodePlaces(tree) == {q \in Paths(tree) : NodeAt(tree, q).k = "obj"}

\* a is the place of b or of one of the nodes around b
IsPrefix(a, b) == Len(a) <= Len(b) /\ SubSeq(b, 1, Len(a)) = a

\* C21: the traversal is depth-first and pre-order and visits every
\* reachable node exactly once: a node before any of its children, the
\* elements of a list in list order, no node twice.
C21_PreOrderOnce ==
    (Done /\ ret.of = "traverse") =>
        LET order == ret.value
        IN  /\ NodePlaces(ast) = {order[n] : n \in 1..Len(order)}
            /\ \A m, n \in 1..Len(order) : order[m] = order[n] => m = n
            /\ \A m, n \in 1..Len(order) :
                   (m # n /\ IsPrefix(order[m], order[n])) => m < n
            /\ \A m, n \in 1..Len(order) :
                   (/\ Len(order[m]) = Len(order[n])
                    /\ Len(order[m]) > 0
                    /\ SubSeq(order[m], 1, Len(order[m]) - 1)
                           = SubSeq(order[n], 1, Len(order[n]) - 1)
                    /\ order[m][Len(order[m])] < order[n][Len(order[n])]) => m < n
            /\ \A m, n, k \in 1..Len(order) :
                   (m < n /\ n < k /\ IsPrefix(order[m], order[k]))
                       => IsPrefix(order[m], order[n])

\* a tree with a list of two nodes, the first with children of its own, was
\* traversed
C21_Witness ==
    /\ Done
    /\ ret.of = "traverse"
    /\ \E q \in Paths(ast) :
         /\ NodeAt(ast, q).k = "arr"
         /\ Len(NodeAt(ast, q).e) = 2
         /\ NodeAt(ast, q).e[1].k = "obj"
         /\ NodePlaces(NodeAt(ast, q).e[1]) # {<<>>}
         /\ NodeAt(ast, q).e[2].k = "obj"

\* the places the traversal reaches when it follows a field that is not a
\* list only to a value with a type: no object without a type lies on the way
\* from the root to the place, unless it is the root or an element of a list
TypedPlaces(tree) ==
    {q \in Paths(tree) :
        \A n \in 1..Len(q) :
            LET here == NodeAt(tree, SubSeq(q, 1, n))
                holder == NodeAt(tree, SubSeq(q, 1, n - 1))
            IN  (here.k = "obj" /\ holder.k = "obj") => TypeOf(here) # ""}

\* C22: the traversal descends into a field that is not a list only when
\* its value has a type: an object without a type is skipped like a
\* primitive, so a typed node inside it is neither visited nor counted.
C22_TypedOnly ==
    /\ (Done /\ ret.of = "traverse") =>
           {ret.value[n] : n \in 1..Len(ret.value)} = NodePlaces(ast) \cap TypedPlaces(ast)
    /\ (Done /\ ret.of = "cyclomatic" /\ ret.outcome = "returned") =>
           ret.value = 1 + Cardinality(NodesOfType(ast, DecisionTypes) \cap TypedPlaces(ast))

(***************************************************************************)
(* Claims about the list of duplicate blocks, checked under SpecDup        *)
(***************************************************************************)
\* the length of the common run of the lines from positions i and j on
\* (positions from 1, i < j): the lines agree up to it and not beyond it
CommonRun(lines, i, j) ==
    CHOOSE k \in 0..Len(lines) :
        /\ \A m \in 0..(k - 1) : j + m <= Len(lines) /\ lines[i + m] = lines[j + m]
        /\ ~(j + k <= Len(lines) /\ lines[i + k] = lines[j + k])

\* the pairs of positions at least 3 apart whose common run has 3 lines or more
RunPairs(lines) ==
    {p \in (1..Len(lines)) \X (1..Len(lines)) :
        p[2] >= p[1] + 3 /\ CommonRun(lines, p[1], p[2]) >= 3}

RECURSIVE SumRuns(_, _)
SumRuns(lines, pairs) ==
    IF pairs = {} THEN 0
    ELSE LET p == CHOOSE q \in pairs : TRUE
         IN  CommonRun(lines, p[1], p[2]) + SumRuns(lines, pairs \ {p})

\* C23: the duplicate list holds exactly one block for every pair (i, j)
\* with j >= i + 3 whose common run has k >= 3 lines and no other block,
\* each block records k, and totalDuplicatedLines is the sum of the k, the
\* lines of overlapping blocks counted once per block.
C23_OneBlockPerPair ==
    Done =>
        LET lines == NonBlankLines(code)
            duplicates == ret.value.duplicates
        IN  /\ \A p \in RunPairs(lines) :
                   Cardinality({d \in 1..Len(duplicates) :
                       /\ duplicates[d].lines1[1] = p[1]
                       /\ duplicates[d].lines2[1] = p[2]}) = 1
            /\ \A d \in 1..Len(duplicates) :
                   /\ <<duplicates[d].lines1[1], duplicates[d].lines2[1]>> \in RunPairs(lines)
                   /\ duplicates[d].length
                          = CommonRun(lines, duplicates[d].lines1[1], duplicates[d].lines2[1])
                   /\ duplicates[d].lines1[2] = duplicates[d].lines1[1] + duplicates[d].length - 1
                   /\ duplicates[d].lines2[2] = duplicates[d].lines2[1] + duplicates[d].length - 1
            /\ ret.value.totalDuplicatedLines = SumRuns(lines, RunPairs(lines))

\* a text was analysed in which a run of 4 lines starts 3 lines after its
\* twin, so that the two runs share a line, and another pair has a block too
C23_Witness ==
    /\ Done
    /\ \E p \in RunPairs(NonBlankLines(code)) :
         /\ p[2] = p[1] + 3
         /\ CommonRun(NonBlankLines(code), p[1], p[2]) = 4
    /\ Len(ret.value.duplicates) >= 2
    /\ ret.value.totalDuplicatedLines > Len(NonBlankLines(code))

(***************************************************************************)
(* Claims about the line counts and the quality score, checked under Spec  *)
(***************************************************************************)
\* the positions of the lines of a text that are empty once trimmed
BlankPositions(s) == {n \in 1..Len(Split(s)) : Trim(Split(s)[n]) = <<>>}

\* the positions of the lines whose trimmed text starts with //, /* or *
CommentPositions(s) ==
    {n \in 1..Len(Split(s)) :
        \/ StartsWith(Trim(Split(s)[n]), <<"/", "/">>)
        \/ StartsWith(Trim(Split(s)[n]), <<"/", "*">>)
        \/ StartsWith(Trim(Split(s)[n]), <<"*">>)}

\* C24: every line of the input is counted in exactly one of codeLines,
\* commentLines and blankLines: the three counts are not negative and add up
\* to linesOfCode, a line starting with //, /* or * is a comment line and not
\* a code line, and blankLines is the number of lines empty after trimming.
C24_LinePartition ==
    (Done /\ ~ret.threw) =>
        /\ ret.value.codeLines >= 0
        /\ ret.value.commentLines >= 0
        /\ ret.value.blankLines >= 0
        /\ ret.value.codeLines + ret.value.commentLines + ret.value.blankLines
               = ret.value.linesOfCode
        /\ ret.value.commentLines = Cardinality(CommentPositions(code))
        /\ ret.value.blankLines = Cardinality(BlankPositions(code))
        /\ ret.value.codeLines
               = Cardinality((1..Len(Split(code)))
                                 \ (CommentPositions(code) \cup BlankPositions(code)))

\* the larger of 0 and x
AtLeastZero(x) == IF x > 0 THEN x ELSE 0

\* 0.4 MI + 0.2 max(0, 100 - 2 cc) + 0.2 max(0, 100 - 2 dup) + 0.2 ratio on
\* the fields of a record, in thousandths; dup and ratio are in hundredths
Blend(record) ==
    400 * record.maintainabilityIndex
    + 200 * AtLeastZero(100 - 2 * record.cyclomaticComplexity)
    + 2 * AtLeastZero(10000 - 2 * record.duplication.percentage.v)
    + 2 * record.commentRatio

IssueVulnerabilitySeverities ==
    {"Critical", "High", "Medium", "Low", "high", "", "constructor"}
IssueSmellSeverities == {"High", "Medium", "Low", "minor", "", "toString"}

\* metrics at and beyond each threshold; the duplication is in hundredths
IssueMetrics ==
    {[cyclomaticComplexity |-> c, duplicationPercentage |-> Num(d), maintainabilityIndex |-> m] :
        c \in {20, 23}, d \in {1000, 1234}, m \in {50, 47}}

InitIssues ==
    /\ code = <<>>
    /\ ast = Null
    /\ vulnerabilities \in
           {[n \in 1..Len(q) |-> Issue(q[n])] :
                q \in SeqsUpTo(IssueVulnerabilitySeverities, MaxVulnerabilities)}
    /\ codeSmells \in
           {[n \in 1..Len(q) |-> Issue(q[n])] :
                q \in SeqsUpTo(IssueSmellSeverities, MaxCodeSmells)}
    /\ walk = NoWalk
    /\ closure = NoClosure
    /\ calls = NoCalls
    /\ metricsArg \in IssueMetrics
    /\ miArgs = NoMiArgs
    /\ scenario = NoScenario
    /\ pc = "ready"
    /\ ret = NotCalled
    /\ analysis = NoAnalysis
    /\ events = NoEvents

\* what the caller of calculateTechnicalDebt gets: a number of hundredths of
\* an hour, or NaN
HoursReturned(debt) ==
    [outcome |-> IF debt.threw THEN "threw" ELSE "returned",
     value |-> IF debt.nan THEN NaN ELSE Num(debt.value)]

\* calculateTechnicalDebt(metrics, vulnerabilities, codeSmells)
CalculateTechnicalDebt ==
    /\ pc = "ready"
    /\ ret' = HoursReturned(calculateTechnicalDebt(metricsArg, vulnerabilities, codeSmells))
    /\ pc' = "done"
    /\ UNCHANGED <<code, ast, vulnerabilities, codeSmells, metricsArg, miArgs, scenario, walk, closure, calls, analysis, events>>

NextIssues == CalculateTechnicalDebt

SpecIssues == InitIssues /\ [][NextIssues]_vars

\* the complexity, duplication and maintainability terms of the arguments,
\* in thousandths of an hour
ThreeTerms(metrics) ==
    (IF metrics.cyclomaticComplexity > 20
     THEN (metrics.cyclomaticComplexity - 20) * 500 ELSE 0)
    + (IF metrics.duplicationPercentage.v > 1000
       THEN (metrics.duplicationPercentage.v - 1000) * 3 ELSE 0)
    + (IF metrics.maintainabilityIndex < 50
       THEN (50 - metrics.maintainabilityIndex) * 200 ELSE 0)

\* the number of issues of a list with a given severity
CountSeverity(issues, severity) ==
    Cardinality({n \in 1..Len(issues) : issues[n].severity = severity})

\* the issues of a list whose severity is none of the given ones
CountOther(issues, severities) ==
    Cardinality({n \in 1..Len(issues) : issues[n].severity \notin severities})

\* the weights of the issues with a known severity, in thousandths of an hour
KnownWeights(vulns, smells) ==
    4000 * CountSeverity(vulns, "Critical") + 2000 * CountSeverity(vulns, "High")
    + 1000 * CountSeverity(vulns, "Medium") + 500 * CountSeverity(vulns, "Low")
    + 1000 * CountSeverity(smells, "High") + 500 * CountSeverity(smells, "Medium")
    + 250 * CountSeverity(smells, "Low")

\* C25: calculateTechnicalDebt adds the weight of its severity for each
\* vulnerability (Critical 4, High 2, Medium 1, Low 0.5) and for each code
\* smell (High 1, Medium 0.5, Low 0.25); the contributions are summed with
\* the complexity, duplication and maintainability terms and the total is
\* rounded to 2 decimals.
C25_WeightsSummed ==
    (/\ Done
     /\ CountOther(vulnerabilities, {"Critical", "High", "Medium", "Low"}) = 0
     /\ CountOther(codeSmells, {"High", "Medium", "Low"}) = 0) =>
        /\ ret.outcome = "returned"
        /\ ret.value
               = Num(RoundDiv(ThreeTerms(metricsArg)
                                  + KnownWeights(vulnerabilities, codeSmells), 10))

\* two vulnerabilities of different severities and a smell of low severity
\* were weighed, with all three terms at work and a total that needed rounding
C25_Witness ==
    /\ Done
    /\ Len(vulnerabilities) = 2
    /\ vulnerabilities[1].severity = "Critical"
    /\ vulnerabilities[2].severity = "Low"
    /\ codeSmells = <<Issue("Low")>>
    /\ metricsArg.cyclomaticComplexity > 20
    /\ metricsArg.maintainabilityIndex < 50
    /\ (ThreeTerms(metricsArg) + KnownWeights(vulnerabilities, codeSmells)) % 10 # 0
    /\ ret.value = Num(755)

\* C29: every issue contributes a strictly positive amount: a vulnerability
\* whose severity is missing or is not exactly one of Critical, High, Medium,
\* Low adds 1 hour, a code smell whose severity is missing or is not exactly
\* one of High, Medium, Low adds 0.5 hour; no issue is ever ignored.
C29_EveryIssueCounts ==
    Done =>
        /\ ret.outcome = "returned"
        /\ ret.value
               = Num(RoundDiv(ThreeTerms(metricsArg)
                                  + KnownWeights(vulnerabilities, codeSmells)
                                  + 1000 * CountOther(vulnerabilities,
                                                      {"Critical", "High", "Medium", "Low"})
                                  + 500 * CountOther(codeSmells, {"High", "Medium", "Low"}),
                              10))

(***************************************************************************)
(* extractFunctions                                                        *)
(***************************************************************************)
\* v?.key: undefined when v is no object or has no such property
Prop(v, key) ==
    IF v.k = "obj" /\ \E n \in 1..Len(v.f) : v.f[n].key = key
    THEN v.f[CHOOSE n \in 1..Len(v.f) : v.f[n].key = key].val
    ELSE Undefined

\* whether x || y takes x
Truthy(v) ==
    CASE v.k \in {"null", "undefined"} -> FALSE
      [] v.k = "bool" -> v.b
      [] v.k = "str" -> v.s # ""
      [] OTHER -> TRUE

\* x || y
OrElse(x, y) == IF Truthy(x) THEN x ELSE y

\* v?.length || 0
LengthOrZero(v) == IF v.k = "arr" THEN Len(v.e) ELSE 0

\* the entry pushed for a MethodDefinition or ClassMethod node
MethodEntry(node) ==
    [name |-> OrElse(Prop(Prop(node, "key"), "name"), Str("anonymous")),
     type |-> "method",
     kind |-> OrElse(Prop(node, "kind"), Str("method")),
     params |-> LengthOrZero(Prop(Prop(node, "value"), "params")),
     async |-> OrElse(Prop(Prop(node, "value"), "async"), Bool(FALSE)),
     static |-> OrElse(Prop(node, "static"), Bool(FALSE))]

\* the entries pushed on the visit of one node: the three if statements
FunctionEntries(node, parent) ==
    (IF TypeOf(node) = "FunctionDeclaration"
     THEN << [name |-> OrElse(Prop(Prop(node, "id"), "name"), Str("anonymous")),
              type |-> "function",
              params |-> LengthOrZero(Prop(node, "params")),
              async |-> OrElse(Prop(node, "async"), Bool(FALSE)),
              generator |-> OrElse(Prop(node, "generator"), Bool(FALSE))] >>
     ELSE <<>>)
    \o (IF TypeOf(node) \in {"ArrowFunctionExpression", "FunctionExpression"}
        THEN << [name |-> OrElse(Prop(Prop(parent, "id"), "name"),
                                 OrElse(Prop(Prop(parent, "key"), "name"),
                                        Str("anonymous"))),
                 type |-> IF TypeOf(node) = "ArrowFunctionExpression"
                          THEN "arrow" ELSE "expression",
                 params |-> LengthOrZero(Prop(node, "params")),
                 async |-> OrElse(Prop(node, "async"), Bool(FALSE))] >>
        ELSE <<>>)
    \o (IF TypeOf(node) \in {"MethodDefinition", "ClassMethod"}
        THEN <<MethodEntry(node)>>
        ELSE <<>>)

RECURSIVE ExtractFrom(_, _)
RECURSIVE ExtractEach(_, _, _)
RECURSIVE ExtractKeys(_, _)

\* child.forEach((c) => traverse(c, node)), from element n on
ExtractEach(arr, node, n) ==
    IF n > Len(arr.e) THEN <<>>
    ELSE ExtractFrom(arr.e[n], node) \o ExtractEach(arr, node, n + 1)

\* the loop over the keys of a node, from child n on
ExtractKeys(node, n) ==
    IF n > Len(ChildrenOf(node)) THEN <<>>
    ELSE LET child == ChildrenOf(node)[n]
         IN  (IF child.k = "arr" THEN ExtractEach(child, node, 1)
              ELSE IF ~NotAnObject(child) THEN ExtractFrom(child, node)
              ELSE <<>>)
             \o ExtractKeys(node, n + 1)

\* traverse(node, parent): what it and the calls below it push, in order
ExtractFrom(node, parent) ==
    IF NotAnObject(node) THEN <<>>
    ELSE FunctionEntries(node, parent) \o ExtractKeys(node, 1)

\* traverse(ast) with parent = null; return functions
extractFunctions(tree) == ExtractFrom(tree, Null)

(***************************************************************************)
(* SpecFunctions: one call of extractFunctions                             *)
(***************************************************************************)
\* the largest number of statements of a program
MaxStatements == 2

\* the numbers of declared parameters
ParamCounts == {0, 2}

Identifier(name) == Node("Identifier", <<Field("name", Str(name))>>)

\* the fields every function node has: n parameters, the async flag, a body
FunctionFields(n, async) ==
    <<Field("params", Arr([m \in 1..n |-> Identifier("p")])),
      Field("async", Bool(async)),
      Field("body", Node("BlockStatement", <<Field("body", Arr(<<>>))>>))>>

\* class C { m(...) {} } with the method as the class body holds it
ClassWith(method) ==
    Node("ClassDeclaration", <<
        Field("id", Identifier("C")),
        Field("body", Node("ClassBody", <<Field("body", Arr(<<method>>))>>))>>)

\* a statement holding one function written in the given way
Statement(form, n, async) ==
    CASE form = "declaration" ->
            Node("FunctionDeclaration",
                 <<Field("id", Identifier("f")), Field("generator", Bool(FALSE))>>
                     \o FunctionFields(n, async))
      [] form \in {"ArrowFunctionExpression", "FunctionExpression"} ->
            Node("VariableDeclaration", <<Field("declarations", Arr(<<
                Node("VariableDeclarator", <<
                    Field("id", Identifier("g")),
                    Field("init", Node(form, <<Field("id", Null)>>
                                                 \o FunctionFields(n, async)))>>)>>))>>)
      [] form = "callback" ->
            Node("ExpressionStatement", <<Field("expression",
                Node("CallExpression", <<
                    Field("callee", Identifier("run")),
                    Field("arguments", Arr(<<
                        Node("ArrowFunctionExpression",
                             <<Field("id", Null)>> \o FunctionFields(n, async))>>))>>))>>)
      [] form = "ClassMethod" ->
            ClassWith(Node("ClassMethod",
                <<Field("key", Identifier("m")), Field("kind", Str("method")),
                  Field("static", Bool(FALSE))>> \o FunctionFields(n, async)))
      [] form = "MethodDefinition" ->
            ClassWith(Node("MethodDefinition", <<
                Field("key", Identifier("m")), Field("kind", Str("method")),
                Field("static", Bool(FALSE)),
                Field("value", Node("FunctionExpression",
                                    <<Field("id", Null)>> \o FunctionFields(n, async)))>>))

StatementForms ==
    {"declaration", "ArrowFunctionExpression", "FunctionExpression", "callback",
     "ClassMethod", "MethodDefinition"}

Statements ==
    {Statement(form, n, async) : form \in StatementForms, n \in ParamCounts, async \in BOOLEAN}

FunctionTrees ==
    {Null} \cup {Node("Program", <<Field("body", Arr(body))>>) :
                    body \in SeqsUpTo(Statements, MaxStatements)}

InitFunctions ==
    /\ code = <<>>
    /\ ast \in FunctionTrees
    /\ vulnerabilities = NoIssue
    /\ codeSmells = NoIssue
    /\ walk = NoWalk
    /\ closure = NoClosure
    /\ calls = NoCalls
    /\ metricsArg = NoMetrics
    /\ miArgs = NoMiArgs
    /\ scenario = NoScenario
    /\ pc = "ready"
    /\ ret = NotCalled
    /\ analysis = NoAnalysis
    /\ events = NoEvents

\* extractFunctions(ast)
ExtractFunctions ==
    /\ pc = "ready"
    /\ ret' = [outcome |-> "returned", value |-> extractFunctions(ast)]
    /\ pc' = "done"
    /\ UNCHANGED <<code, ast, vulnerabilities, codeSmells, metricsArg, miArgs, scenario, walk, closure, calls, analysis, events>>

NextFunctions == ExtractFunctions

SpecFunctions == InitFunctions /\ [][NextFunctions]_vars

\* the places of the nodes for which an entry is pushed, in the order of the
\* traversal
EntryPlaces(tree) ==
    SelectSeq(TraverseOrder(tree, <<>>), LAMBDA q :
        TypeOf(NodeAt(tree, q)) \in
            {"FunctionDeclaration", "ArrowFunctionExpression", "FunctionExpression",
             "MethodDefinition", "ClassMethod"})

\* the node that carries the parameters and the async flag of a function:
\* the value of a MethodDefinition, the node itself otherwise
FunctionOf(node) ==
    IF TypeOf(node) = "MethodDefinition" THEN Prop(node, "value") ELSE node

\* C27: for every function-like node, a ClassMethod that carries its own
\* params and async flag and a MethodDefinition whose value is the function
\* included, the entry of extractFunctions has a non-empty string as name
\* ("anonymous" when none is resolved), a parameter count equal to the number
\* of declared parameters and an async flag equal to the function's own.
C27_EntryOfFunction ==
    Done =>
        /\ Len(ret.value) = Len(EntryPlaces(ast))
        /\ \A n \in 1..Len(ret.value) :
             LET function == FunctionOf(NodeAt(ast, EntryPlaces(ast)[n]))
             IN  /\ ret.value[n].name.k = "str"
                 /\ ret.value[n].name.s # ""
                 /\ ret.value[n].params = Len(Prop(function, "params").e)
                 /\ ret.value[n].async = Prop(function, "async")

\* the places of the functions of a tree: the method of a MethodDefinition
\* is the function expression it has as value
FunctionPlaces(tree) ==
    NodesOfType(tree, {"FunctionDeclaration", "ArrowFunctionExpression",
                       "FunctionExpression", "ClassMethod"})

\* C28: extractFunctions lists each function of the tree exactly once; a
\* class method yields a single entry, be it a ClassMethod node or a
\* MethodDefinition whose value is a FunctionExpression, so the length of
\* the list is the number of functions.
C28_OneEntryPerFunction ==
    Done => Len(ret.value) = Cardinality(FunctionPlaces(ast))

(***************************************************************************)
(* SpecEnhanced: POST /analyze/enhanced and processEnhancedAnalysis, one   *)
(* action per stretch of code between two awaits                           *)
(***************************************************************************)
\* the requests; each may become an analysis
Analyses == {"a1", "a2"}

\* io.to(...).emit: the events of an analysis, in the order of emission; io
\* is set when the server starts, before any request is served
AnalysisStarted(a) == [name |-> "analysis:started", analysisId |-> a]
AnalysisProgress(a, p) == [name |-> "analysis:progress", analysisId |-> a, progress |-> p]
AnalysisCompleted(a) == [name |-> "analysis:completed", analysisId |-> a]
AnalysisError(a) == [name |-> "analysis:error", analysisId |-> a]

\* a catch block that leaves the status as it is
CatchBlockKeepStatus(doc) == [doc EXCEPT !.pc = "catchSave"]
\* catch (error) { analysis.status = "failed"; ... await analysis.save()
CatchBlock(doc) == [doc EXCEPT !.status = "failed", !.pc = "catchSave"]

\* the step of an analysis ends in the catch block after emitting some events
Throw(a, emitted) ==
    /\ analysis' = [analysis EXCEPT ![a] = CatchBlock(@)]
    /\ events' = [events EXCEPT ![a] = @ \o emitted]

\* the step of an analysis emits some events and stops at the next await
Await(a, emitted, next) ==
    /\ analysis' = [analysis EXCEPT ![a].pc = next]
    /\ events' = [events EXCEPT ![a] = @ \o emitted]

\* what does not belong to the analyses
Others == <<code, ast, vulnerabilities, codeSmells, metricsArg, miArgs, scenario, pc, ret, walk, closure, calls>>

InitEnhanced ==
    /\ code = <<>>
    /\ ast = Null
    /\ vulnerabilities = NoIssue
    /\ codeSmells = NoIssue
    /\ walk = NoWalk
    /\ closure = NoClosure
    /\ calls = NoCalls
    /\ metricsArg = NoMetrics
    /\ miArgs = NoMiArgs
    /\ scenario = NoScenario
    /\ pc = "ready"
    /\ ret = NotCalled
    /\ analysis = [a \in Analyses |-> [pc |-> "request", status |-> "none", saved |-> "none"]]
    /\ events = [a \in Analyses |-> <<>>]

\* the request is answered with 400 or 404, or Analysis.create rejects: no
\* analysis exists and nothing is emitted
Refuse(a) ==
    /\ analysis[a].pc = "request"
    /\ analysis' = [analysis EXCEPT ![a].pc = "refused"]
    /\ UNCHANGED events
    /\ UNCHANGED Others

\* Analysis.create resolves; analysis:started; processEnhancedAnalysis runs
\* up to await analyzeSecurity: progress 10, parseCode, progress 20,
\* detectHardcodedSecrets, progress 40
Post(a) ==
    /\ analysis[a].pc = "request"
    /\ \E outcome \in {"parse threw", "secrets threw", "awaits"} :
         LET created == [analysis EXCEPT ![a].status = "processing",
                                         ![a].saved = "processing"]
         IN  CASE outcome = "parse threw" ->
                    /\ analysis' = [created EXCEPT ![a] = CatchBlock(@)]
                    /\ events' = [events EXCEPT ![a] = <<AnalysisStarted(a), AnalysisProgress(a, 10)>>]
               [] outcome = "secrets threw" ->
                    /\ analysis' = [created EXCEPT ![a] = CatchBlock(@)]
                    /\ events' = [events EXCEPT ![a] =
                                      <<AnalysisStarted(a), AnalysisProgress(a, 10), AnalysisProgress(a, 20)>>]
               [] outcome = "awaits" ->
                    /\ analysis' = [created EXCEPT ![a].pc = "analyzeSecurity"]
                    /\ events' = [events EXCEPT ![a] =
                                      <<AnalysisStarted(a), AnalysisProgress(a, 10), AnalysisProgress(a, 20),
                                        AnalysisProgress(a, 40)>>]
    /\ UNCHANGED Others

\* await analyzeSecurity settles; the secrets are added; progress 60
SecuritySettled(a) ==
    /\ analysis[a].pc = "analyzeSecurity"
    /\ \/ Throw(a, <<>>)
       \/ Await(a, <<AnalysisProgress(a, 60)>>, "analyzeQuality")
    /\ UNCHANGED Others

\* await analyzeQuality settles; progress 70; the arguments of
\* calculateAllMetrics are read from the answer
QualitySettled(a) ==
    /\ analysis[a].pc = "analyzeQuality"
    /\ \/ Throw(a, <<>>)
       \/ Throw(a, <<AnalysisProgress(a, 70)>>)
       \/ Await(a, <<AnalysisProgress(a, 70)>>, "calculateAllMetrics")
    /\ UNCHANGED Others

\* await calculateAllMetrics settles; the metrics are merged; progress 80
MetricsSettled(a) ==
    /\ analysis[a].pc = "calculateAllMetrics"
    /\ \/ Throw(a, <<>>)
       \/ Await(a, <<AnalysisProgress(a, 80)>>, "analyzePerformance")
    /\ UNCHANGED Others

\* await analyzePerformance settles; progress 90
PerformanceSettled(a) ==
    /\ analysis[a].pc = "analyzePerformance"
    /\ \/ Throw(a, <<>>)
       \/ Await(a, <<AnalysisProgress(a, 90)>>, "generateSuggestions")
    /\ UNCHANGED Others

\* await generateSuggestions settles; progress 95; the scores; progress 100;
\* analysis.status = "completed"; analysis.save() is called
SuggestionsSettled(a) ==
    /\ analysis[a].pc = "generateSuggestions"
    /\ \/ Throw(a, <<>>)
       \/ Throw(a, <<AnalysisProgress(a, 95)>>)
       \/ /\ analysis' = [analysis EXCEPT ![a].pc = "save", ![a].status = "completed"]
          /\ events' = [events EXCEPT ![a] = @ \o <<AnalysisProgress(a, 95), AnalysisProgress(a, 100)>>]
    /\ UNCHANGED Others

\* await analysis.save() settles; project.save() is called
SaveSettled(a) ==
    /\ analysis[a].pc = "save"
    /\ \/ Throw(a, <<>>)
       \/ /\ analysis' = [analysis EXCEPT ![a].pc = "projectSave",
                                          ![a].saved = analysis[a].status]
          /\ UNCHANGED events
    /\ UNCHANGED Others

\* await project.save() settles; analysis:completed; the promise is fulfilled
ProjectSaveSettled(a) ==
    /\ analysis[a].pc = "projectSave"
    /\ \/ Throw(a, <<>>)
       \/ Await(a, <<AnalysisCompleted(a)>>, "fulfilled")
    /\ UNCHANGED Others

\* await analysis.save() of the catch block settles; the error is thrown
\* again, or the one of the save; the promise is rejected and the handler
\* given to catch emits analysis:error
CatchSaveSettled(a) ==
    /\ analysis[a].pc = "catchSave"
    /\ \E saved \in BOOLEAN :
         analysis' = [analysis EXCEPT ![a].pc = "rejected",
                                      ![a].saved = IF saved THEN analysis[a].status ELSE @]
    /\ events' = [events EXCEPT ![a] = @ \o <<AnalysisError(a)>>]
    /\ UNCHANGED Others

\* the awaited steps of one analysis
Settles(a) ==
    \/ SecuritySettled(a)
    \/ QualitySettled(a)
    \/ MetricsSettled(a)
    \/ PerformanceSettled(a)
    \/ SuggestionsSettled(a)
    \/ SaveSettled(a)
    \/ ProjectSaveSettled(a)
    \/ CatchSaveSettled(a)

NextEnhanced ==
    \E a \in Analyses :
        \/ Refuse(a)
        \/ Post(a)
        \/ Settles(a)

SpecEnhanced == InitEnhanced /\ [][NextEnhanced]_vars

\* every awaited step settles
SpecEnhancedSettling == SpecEnhanced /\ \A a \in Analyses : WF_vars(Settles(a))

\* the positions of the events of a log with one of the given names
EventsNamed(log, names) == {n \in 1..Len(log) : log[n].name \in names}

TerminalNames == {"analysis:completed", "analysis:error"}

\* an event with one of the names is emitted by the step
Emits(a, names) ==
    EventsNamed(events'[a], names) # EventsNamed(events[a], names)

====
